---- MODULE Spec2Model ----
(***************************************************************************)
(* Booking rule-and-concurrency engine (booking/engine.py, rules.py,       *)
(* availability.py, schema.py) over a relational store with row locks and  *)
(* READ COMMITTED statements (db/session.py: the engine default).          *)
(*                                                                         *)
(* Time is counted in minutes: a local datetime is date * 1440 + minute of *)
(* day, a UTC instant is the local datetime minus the building's UTC       *)
(* offset (fixed-offset zones only; DST transitions are not modelled).     *)
(***************************************************************************)
EXTENDS Integers, Sequences, FiniteSets, TLC

VARIABLES scope, tzOffset, amenities, rules, bookings, amLock, bkLocks, proc, nreq, nfail

vars == <<scope, tzOffset, amenities, rules, bookings, amLock, bkLocks, proc, nreq, nfail>>

(* ------------------------------ bounds -------------------------------- *)

\* total number of execute calls in one behaviour
MaxRequests == 3

\* total number of injected store failures in one behaviour
MaxFailures == 1

\* rows in the bookings table when the availability queries are asked
MaxStored == 2

\* worker threads of the API server
Procs == {"p1", "p2"}

(* ----------------------------- constants ------------------------------ *)

MinutesPerDay == 1440

\* datetime.now(timezone.utc), frozen: day 2, 00:00 UTC
NowUtc == 2 * MinutesPerDay

None == "none"
NoProc == "noproc"
\* Optional[date] / Optional[time] that is absent
NoDate == -1
NoTime == -1
\* Optional[int] duration_minutes that is absent (Field(ge=1) keeps 0 out)
NoDur == 0
\* booking id that is absent from the intent
NoId == 0
\* a well-formed booking id that matches no row (at most MaxRequests rows exist)
BogusId == MaxRequests + 1

(* ------------------------- rejection reasons -------------------------- *)

NoReason == "none"
R_Invalid == "Invalid intent payload"
R_Unsupported == "Unsupported intent."
R_AmenityNotFoundOrInactive == "Amenity not found or inactive."
R_AmenityNotFound == "Amenity not found."
R_NoRules == "Amenity rules are not configured."
R_ExceedsMax == "Requested duration exceeds max_duration_minutes"
R_NotMultiple == "Duration must be a multiple of slot_length_minutes"
R_Past == "Requested time is in the past."
R_Advance == "Requested time exceeds advance booking window"
R_Hours == "Requested time is outside operating hours"
R_SlotBounds == "Requested time is outside slot boundaries."
R_Align == "Booking must align with slot boundaries"
R_UserOverlap == "User already has an overlapping booking for this amenity."
R_NoCapacity == "No capacity available for one or more requested slots."
R_NotOwner == "Booking does not belong to this user."
R_NotFound == "Booking not found."
R_AlreadyCancelled == "Booking already cancelled."
R_DbCreate == "Database error while creating booking."
R_DbCancel == "Database error while cancelling booking."

(* --------------------------- schema.py -------------------------------- *)

BOOKED == "BOOKED"
CANCELLED == "CANCELLED"

\* IntentType: BOOK/BOOK_AMENITY and CANCEL/CANCEL_BOOKING are aliases
BookKinds == {"BOOK", "BOOK_AMENITY"}
CancelKinds == {"CANCEL", "CANCEL_BOOKING"}
CheckKinds == {"CHECK_AVAILABILITY"}
IntentType == BookKinds \cup CancelKinds \cup CheckKinds

\* BookingIntent.validate_by_intent plus the enum check of the intent field
ValidIntent_lax(i) == i.kind \in IntentType

\* the truth value of an Optional[str]: None and the empty string are false
Truthy(s) == s # None /\ s # ""

ValidIntent(i) ==
    /\ i.kind \in IntentType
    /\ LET needs_schedule == i.kind \in BookKinds \cup CheckKinds
           cancel_without_booking_id == i.kind \in CancelKinds /\ i.booking_id = NoId
       IN  (needs_schedule \/ cancel_without_booking_id)
               => (i.amenity # None /\ i.date # NoDate /\ i.time # NoTime)

BookingResult(success, reason, booking_id, available) ==
    [success |-> success, reason |-> reason, booking_id |-> booking_id, available |-> available]

NoResult == BookingResult(FALSE, NoReason, NoId, FALSE)

(* ---------------------------- rules.py -------------------------------- *)

\* RuleEngine.resolve_duration_minutes
ResolveDuration_longest(requested, rule) ==
    LET duration == IF requested # NoDur THEN requested ELSE rule.max_duration_minutes
    IN  [duration |-> duration,
         reason |-> IF duration > rule.max_duration_minutes THEN R_ExceedsMax
                    ELSE IF duration % rule.slot_length_minutes # 0 THEN R_NotMultiple
                    ELSE NoReason]

ResolveDuration_multiple_first(requested, rule) ==
    LET duration == IF requested # NoDur THEN requested ELSE rule.slot_length_minutes
    IN  [duration |-> duration,
         reason |-> IF duration % rule.slot_length_minutes # 0 THEN R_NotMultiple
                    ELSE IF duration > rule.max_duration_minutes THEN R_ExceedsMax
                    ELSE NoReason]

ResolveDuration(requested, rule) ==
    LET duration == IF requested # NoDur THEN requested ELSE rule.slot_length_minutes
    IN  [duration |-> duration,
         reason |-> IF duration > rule.max_duration_minutes THEN R_ExceedsMax
                    ELSE IF duration % rule.slot_length_minutes # 0 THEN R_NotMultiple
                    ELSE NoReason]

\* RuleEngine.compute_end_time
ComputeEndTime(start_time, duration_minutes) == start_time + duration_minutes

CheckAdvanceLimit_exclusive(start_time, rule) ==
    IF start_time < NowUtc THEN R_Past
    ELSE IF start_time >= NowUtc + rule.advance_booking_limit_days * MinutesPerDay THEN R_Advance
    ELSE NoReason

\* RuleEngine.check_advance_limit
CheckAdvanceLimit(start_time, rule) ==
    IF start_time < NowUtc THEN R_Past
    ELSE IF start_time > NowUtc + rule.advance_booking_limit_days * MinutesPerDay THEN R_Advance
    ELSE NoReason

\* datetime.timetz(): the wall-clock time of day
TimeOfDay(dt) == dt % MinutesPerDay

\* datetime.date(): the calendar day
DateOf(dt) == dt \div MinutesPerDay

\* RuleEngine.check_operating_window
CheckOperatingWindow(start_time, end_time, rule) ==
    IF TimeOfDay(start_time) < rule.operating_start_time
       \/ TimeOfDay(end_time) > rule.operating_end_time
    THEN R_Hours ELSE NoReason

\* instants finer than a minute are kept to the half second
HalfSecondsPerMinute == 2 * 60

\* int(timedelta.total_seconds()): the fraction of a second is dropped, towards zero
IntSeconds(half_seconds) ==
    IF half_seconds >= 0 THEN half_seconds \div 2 ELSE -((-half_seconds) \div 2)

\* RuleEngine.check_slot_alignment, the instants given in half seconds
CheckSlotAlignmentAt(start_time, end_time, rule) ==
    LET day == MinutesPerDay * HalfSecondsPerMinute
        anchor == (start_time \div day) * day + rule.operating_start_time * HalfSecondsPerMinute
        slot_seconds == rule.slot_length_minutes * 60
        start_offset_seconds == IntSeconds(start_time - anchor)
        end_offset_seconds == IntSeconds(end_time - anchor)
    IN  IF start_offset_seconds < 0 \/ end_offset_seconds <= 0 THEN R_SlotBounds
        ELSE IF start_offset_seconds % slot_seconds # 0 \/ end_offset_seconds % slot_seconds # 0
             THEN R_Align
        ELSE NoReason

\* RuleEngine.check_slot_alignment, the instants given in whole minutes
CheckSlotAlignment(start_time, end_time, rule) ==
    CheckSlotAlignmentAt(start_time * HalfSecondsPerMinute, end_time * HalfSecondsPerMinute, rule)

(* ------------------------- availability.py ---------------------------- *)

OverlapQuery_any_status(bks, amenity_id, start_time, end_time) ==
    {b \in DOMAIN bks :
        /\ bks[b].amenity_id = amenity_id
        /\ bks[b].start_time < end_time
        /\ bks[b].end_time > start_time}

\* overlap_query: ids of the BOOKED rows of the amenity overlapping [start, end)
OverlapQuery(bks, amenity_id, start_time, end_time) ==
    {b \in DOMAIN bks :
        /\ bks[b].amenity_id = amenity_id
        /\ bks[b].status = BOOKED
        /\ bks[b].start_time < end_time
        /\ bks[b].end_time > start_time}

\* overlap_count
OverlapCount(bks, amenity_id, start_time, end_time) ==
    Cardinality(OverlapQuery(bks, amenity_id, start_time, end_time))

CapacityAvailable_atmost(bks, amenity_id, start_time, end_time, max_capacity) ==
    OverlapCount(bks, amenity_id, start_time, end_time) <= max_capacity

\* capacity_available
CapacityAvailable(bks, amenity_id, start_time, end_time, max_capacity) ==
    OverlapCount(bks, amenity_id, start_time, end_time) < max_capacity

\* split_into_slots
RECURSIVE SplitIntoSlots(_, _, _)
SplitIntoSlots_inclusive(start_time, end_time, slot_length_minutes) ==
    IF start_time <= end_time
    THEN <<<<start_time, start_time + slot_length_minutes>>>>
         \o SplitIntoSlots(start_time + slot_length_minutes, end_time, slot_length_minutes)
    ELSE <<>>

SplitIntoSlots(start_time, end_time, slot_length_minutes) ==
    IF start_time < end_time
    THEN <<<<start_time, start_time + slot_length_minutes>>>>
         \o SplitIntoSlots(start_time + slot_length_minutes, end_time, slot_length_minutes)
    ELSE <<>>

\* the generator expression of slots_within_capacity
Concurrent(bks, overlaps, slot) ==
    Cardinality({b \in overlaps : bks[b].start_time < slot[2] /\ bks[b].end_time > slot[1]})

SlotsWithinCapacity_offbyone(bks, overlaps, start_time, end_time, slot_length_minutes, max_capacity) ==
    LET slots == SplitIntoSlots(start_time, end_time, slot_length_minutes)
    IN  \A k \in DOMAIN slots : ~(Concurrent(bks, overlaps, slots[k]) > max_capacity)

SlotsWithinCapacity_whole(bks, overlaps, start_time, end_time, slot_length_minutes, max_capacity) ==
    ~(Concurrent(bks, overlaps, <<start_time, end_time>>) >= max_capacity)

\* slots_within_capacity
SlotsWithinCapacity(bks, overlaps, start_time, end_time, slot_length_minutes, max_capacity) ==
    LET slots == SplitIntoSlots(start_time, end_time, slot_length_minutes)
    IN  \A k \in DOMAIN slots : ~(Concurrent(bks, overlaps, slots[k]) >= max_capacity)

(* ------------------------------ store --------------------------------- *)

Users == {"u1", "u2"}

AmenityIds == {"amen1", "amen2", "amen3"}

\* func.lower(Amenity.name) and amenity_name.lower() over the names in use
Lower(name) ==
    CASE name \in {"Gym", "GYM", "gym"} -> "gym"
      [] name \in {"Pool", "pool"} -> "pool"
      [] name \in {"Sauna", "sauna"} -> "sauna"
      [] OTHER -> name

\* models.AmenityRule with the column defaults of models.py, max_capacity and
\* advance_booking_limit_days as configured
AmenityRule(max_capacity) ==
    [max_capacity |-> max_capacity,
     max_duration_minutes |-> 60,
     slot_length_minutes |-> 30,
     advance_booking_limit_days |-> 1,
     operating_start_time |-> 6 * 60,
     operating_end_time |-> 22 * 60,
     allow_overlap |-> FALSE]

\* models.Booking
Booking(building_id, amenity_id, user_id, start_time, end_time, created_at) ==
    [building_id |-> building_id, amenity_id |-> amenity_id, user_id |-> user_id,
     start_time |-> start_time, end_time |-> end_time, status |-> BOOKED,
     created_at |-> created_at]

\* _to_utc for a naive local datetime in a fixed-offset zone
ToUtc(dt, offset) == dt - offset

\* _load_building + building.timezone: every building here is in the same zone
TzOf(amenity_id) == tzOffset

\* datetime.combine(intent.date, intent.time)
Combine(date, time) == date * MinutesPerDay + time

(* ----------------------------- intents -------------------------------- *)

Intent(kind, amenity, date, time, building_id, user_id, booking_id, duration) ==
    [kind |-> kind, amenity |-> amenity, date |-> date, time |-> time,
     building_id |-> building_id, user_id |-> user_id, booking_id |-> booking_id,
     duration_minutes |-> duration]

NoIntent == Intent("none", None, NoDate, NoTime, None, None, NoId, NoDur)

\* requests of the racing workers: well-formed requests for the Gym on day 2
ConcurrentIntents(n) ==
    {Intent("BOOK", "Gym", 2, 360, None, u, NoId, d) : u \in Users \cup {None}, d \in {NoDur, 60}}
    \cup {Intent("CHECK_AVAILABILITY", "Gym", 2, 360, None, "u2", NoId, 60)}
    \cup {Intent("CANCEL", None, NoDate, NoTime, None, "u1", b, NoDur) : b \in 1..n}
    \cup {Intent("CANCEL", "Gym", 2, 360, None, None, NoId, NoDur)}

\* requests of a single worker: every shape, valid or not
SequentialIntents(n) ==
    {Intent(k, "Gym", dt, t, None, "u1", NoId, d) :
        k \in {"BOOK", "CHECK_AVAILABILITY"},
        dt \in {1, 2, 4}, t \in {345, 360, 375, 1320}, d \in {NoDur, 45, 90}}
    \cup {Intent(k, "GYM", 2, t, None, u, NoId, d) :
        k \in {"BOOK", "CHECK_AVAILABILITY"}, t \in {360, 390}, d \in {NoDur, 60},
        u \in {"u2", None}}
    \cup {Intent(k, a, 2, 360, None, "u1", NoId, NoDur) :
        k \in {"BOOK_AMENITY", "CHECK_AVAILABILITY", "CANCEL_BOOKING"},
        a \in {"Pool", "Sauna", "Spa", None}}
    \cup {Intent(k, "Gym", 2, 360, bd, "u1", NoId, NoDur) :
        k \in {"BOOK_AMENITY", "CHECK_AVAILABILITY", "CANCEL_BOOKING"}, bd \in {"b1", "b2"}}
    \cup {Intent(k, "Gym", dt, t, None, "u1", NoId, NoDur) :
        k \in {"BOOK", "CANCEL", "HELLO"}, dt \in {NoDate, 2}, t \in {NoTime, 360}}
    \cup {Intent("CANCEL", None, NoDate, NoTime, None, u, b, NoDur) :
        b \in (1..n) \cup {BogusId}, u \in Users \cup {None}}
    \cup {Intent("CANCEL", "Gym", 2, t, None, u, NoId, NoDur) :
        t \in {360, 390}, u \in {"u1", None}}

\* requests of the racing workers when two buildings each have a Gym: with the
\* building named, or not
BuildingIntents(n) ==
    {Intent("BOOK", "Gym", 2, 360, bd, u, NoId, NoDur) : bd \in {"b1", "b2", None}, u \in Users}
    \cup {Intent("CHECK_AVAILABILITY", "Gym", 2, 360, "b2", "u2", NoId, NoDur)}
    \cup {Intent("CANCEL", None, NoDate, NoTime, None, "u1", b, NoDur) : b \in 1..n}
    \cup {Intent("CANCEL", "Gym", 2, 360, "b1", "u1", NoId, NoDur)}

\* the day of the end-to-end scenario: 30 days after the current day
ScenarioDay == NowUtc \div MinutesPerDay + 30

\* requests of the end-to-end scenario: the Gym of b1 at 10:00 and 10:15 that day,
\* for a named user or with an empty user id, and at 23:30
ScenarioIntents(n) ==
    {Intent(k, "Gym", ScenarioDay, t, "b1", u, NoId, NoDur) :
        k \in {"BOOK", "BOOK_AMENITY", "CHECK_AVAILABILITY", "CANCEL"},
        t \in {600, 615}, u \in Users \cup {""}}
    \cup {Intent("BOOK", "Gym", ScenarioDay, 1410, "b1", "u1", NoId, d) : d \in {NoDur, 60}}
    \cup {Intent("CANCEL", None, NoDate, NoTime, None, "u1", b, NoDur) : b \in 1..n}

Intents(sc, n) ==
    CASE sc \in {"concurrent", "managed"} -> ConcurrentIntents(n)
      [] sc = "buildings" -> BuildingIntents(n)
      [] sc = "scenario" -> ScenarioIntents(n)
      [] OTHER -> SequentialIntents(n)

ActiveProcs(sc) == IF sc \in {"concurrent", "buildings", "admin_race"} THEN Procs ELSE {"p1"}

(* --------------------------- process state ---------------------------- *)

IdleProc ==
    [pc |-> "idle", intent |-> NoIntent, amenity |-> None, rule |-> <<>>,
     start |-> 0, end |-> 0, target |-> NoId, ins |-> FALSE, upd |-> NoId,
     result |-> NoResult, stamp |-> 0, began_cancelled |-> FALSE]

\* the amenity_rules table: only the Gym has a rule
RulesTable(cap) == [a \in AmenityIds |-> IF a = "amen1" THEN <<AmenityRule(cap)>> ELSE <<>>]

Init ==
    /\ \/ scope = "concurrent" /\ tzOffset = 330 /\ \E cap \in {1, 2} : rules = RulesTable(cap)
       \/ scope = "sequential" /\ tzOffset \in {0, 330} /\ rules = RulesTable(1)
    /\ amenities = [a \in AmenityIds |->
            CASE a = "amen1" -> [building_id |-> "b1", name |-> "Gym", is_active |-> TRUE]
              [] a = "amen2" -> [building_id |-> "b1", name |-> "Pool", is_active |-> TRUE]
              [] OTHER -> [building_id |-> "b1", name |-> "Sauna", is_active |-> FALSE]]
    /\ bookings = <<>>
    /\ amLock = [a \in AmenityIds |-> NoProc]
    /\ bkLocks = {}
    /\ proc = [p \in Procs |-> IdleProc]
    /\ nreq = 0
    /\ nfail = 0

\* the seed data of the end-to-end scenario: building b1 in UTC, the Gym with
\* max_capacity 2 and an advance limit of 60 days, no booking
InitScenario ==
    /\ scope = "scenario"
    /\ tzOffset = 0
    /\ rules = [a \in AmenityIds |->
                  IF a = "amen1"
                  THEN <<[AmenityRule(2) EXCEPT !.advance_booking_limit_days = 60]>>
                  ELSE <<>>]
    /\ amenities = [a \in AmenityIds |->
            CASE a = "amen1" -> [building_id |-> "b1", name |-> "Gym", is_active |-> TRUE]
              [] a = "amen2" -> [building_id |-> "b1", name |-> "Pool", is_active |-> TRUE]
              [] OTHER -> [building_id |-> "b1", name |-> "Sauna", is_active |-> FALSE]]
    /\ bookings = <<>>
    /\ amLock = [a \in AmenityIds |-> NoProc]
    /\ bkLocks = {}
    /\ proc = [p \in Procs |-> IdleProc]
    /\ nreq = 0
    /\ nfail = 0

\* two buildings, each with an active Gym that has a rule
InitBuildings ==
    /\ scope = "buildings"
    /\ tzOffset = 330
    /\ rules = [a \in AmenityIds |-> IF a = "amen3" THEN <<>> ELSE <<AmenityRule(1)>>]
    /\ amenities = [a \in AmenityIds |->
            CASE a = "amen1" -> [building_id |-> "b1", name |-> "Gym", is_active |-> TRUE]
              [] a = "amen2" -> [building_id |-> "b2", name |-> "Gym", is_active |-> TRUE]
              [] OTHER -> [building_id |-> "b1", name |-> "Sauna", is_active |-> FALSE]]
    /\ bookings = <<>>
    /\ amLock = [a \in AmenityIds |-> NoProc]
    /\ bkLocks = {}
    /\ proc = [p \in Procs |-> IdleProc]
    /\ nreq = 0
    /\ nfail = 0

(* ------------------------- transactions ------------------------------- *)

\* rows selected by _resolve_amenity
ResolveRows(amenity_name, building_id) ==
    {a \in AmenityIds :
        /\ Lower(amenities[a].name) = Lower(amenity_name)
        /\ amenities[a].is_active
        /\ (building_id # None => amenities[a].building_id = building_id)}

\* SELECT ... FOR UPDATE on amenities waits while another transaction holds a row
AmenityRowsFree_nolock(p, rows) == TRUE

AmenityRowsFree(p, rows) == \A a \in rows : amLock[a] \in {NoProc, p}

\* SELECT ... FOR UPDATE / UPDATE on bookings waits while another transaction holds a row
BookingRowsFree(p, ids) == \A b \in ids : \A q \in Procs \ {p} : <<q, b>> \notin bkLocks

\* the status written by _cancel_booking
CancelStatus_toggle(status) == IF status = CANCELLED THEN BOOKED ELSE CANCELLED

CancelStatus(status) == CANCELLED

\* commit: the transaction's flushed INSERT and UPDATE become visible
Committed(bks, pr) ==
    LET upd == IF pr.upd # NoId
               THEN [bks EXCEPT ![pr.upd].status = CancelStatus(bks[pr.upd].status)]
               ELSE bks
    IN  IF pr.ins
        THEN Append(upd, Booking(amenities[pr.amenity].building_id, pr.amenity,
                                 pr.intent.user_id, pr.start, pr.end, pr.stamp))
        ELSE upd

\* rollback: the transaction's writes are discarded
RolledBack(bks, pr) == bks

Release_keeps(p) == UNCHANGED <<amLock, bkLocks>>

\* end of a transaction: its row locks are released
Release(p) ==
    /\ amLock' = [a \in AmenityIds |-> IF amLock[a] = p THEN NoProc ELSE amLock[a]]
    /\ bkLocks' = {l \in bkLocks : l[1] # p}

DoneProc(pr, pc, result) ==
    [IdleProc EXCEPT !.pc = pc, !.intent = pr.intent, !.result = result,
                     !.began_cancelled = pr.began_cancelled]

\* `return` inside `with db.begin():` commits the transaction, then returns
Return(p, pr, result) ==
    /\ bookings' = Committed(bookings, pr)
    /\ Release(p)
    /\ proc' = [proc EXCEPT ![p] = DoneProc(pr, "done", result)]
    /\ UNCHANGED <<scope, tzOffset, amenities, rules, nreq, nfail>>

\* `return` inside `with SessionLocal() as db:` alone closes the session (rollback)
ReturnClose(p, pr, result) ==
    /\ bookings' = RolledBack(bookings, pr)
    /\ Release(p)
    /\ proc' = [proc EXCEPT ![p] = DoneProc(pr, "done", result)]
    /\ UNCHANGED <<scope, tzOffset, amenities, rules, nreq, nfail>>

Reject(reason) == BookingResult(FALSE, reason, NoId, FALSE)

\* a step that only moves the transaction on
Advance(p, pr) ==
    /\ proc' = [proc EXCEPT ![p] = pr]
    /\ UNCHANGED <<scope, tzOffset, amenities, rules, bookings, nreq, nfail>>

MissingSchedule(i) == i.amenity = None \/ i.date = NoDate \/ i.time = NoTime

(* ---------------------------- execute --------------------------------- *)

\* the dispatch of execute_booking
Dispatch(i) ==
    IF i.kind \in CancelKinds THEN (IF i.booking_id # NoId THEN "cancel_get" ELSE "cancel_resolve")
    ELSE IF i.kind \in CheckKinds THEN "check_resolve"
    ELSE IF i.kind \in BookKinds THEN "create_resolve"
    ELSE "unsupported"

\* execute_booking: validation of the payload, then dispatch
Begin(p) ==
    /\ p \in ActiveProcs(scope)
    /\ proc[p].pc \in {"idle", "done", "raised"}
    /\ nreq < MaxRequests
    /\ \E i \in Intents(scope, Len(bookings)) :
          proc' = [proc EXCEPT ![p] =
              IF ~ValidIntent(i)
              THEN DoneProc([IdleProc EXCEPT !.intent = i], "done", Reject(R_Invalid))
              ELSE IF Dispatch(i) = "unsupported"
              THEN DoneProc([IdleProc EXCEPT !.intent = i], "done", Reject(R_Unsupported))
              ELSE [IdleProc EXCEPT
                      !.pc = Dispatch(i), !.intent = i, !.stamp = nreq + 1,
                      !.began_cancelled = /\ i.booking_id \in DOMAIN bookings
                                          /\ bookings[i.booking_id].status = CANCELLED]]
    /\ nreq' = nreq + 1
    /\ UNCHANGED <<scope, tzOffset, amenities, rules, bookings, amLock, bkLocks, nfail>>

(* ------------------------- _create_booking ---------------------------- *)

\* the rule checks of _create_booking, in the order of the code
CreateRuleChecks_reordered(i, rule, tz) ==
    LET requested_start_local == Combine(i.date, i.time)
        requested_start == ToUtc(requested_start_local, tz)
        dur == ResolveDuration(i.duration_minutes, rule)
        requested_end_local == ComputeEndTime(requested_start_local, dur.duration)
        requested_end == ToUtc(requested_end_local, tz)
        advance_check == CheckAdvanceLimit(requested_start, rule)
        hours_check == CheckOperatingWindow(requested_start_local, requested_end_local, rule)
        slot_alignment_check == CheckSlotAlignment(requested_start_local, requested_end_local, rule)
    IN  [start |-> requested_start, end |-> requested_end,
         reason |-> IF dur.reason # NoReason THEN dur.reason
                    ELSE IF advance_check # NoReason THEN advance_check
                    ELSE IF slot_alignment_check # NoReason THEN slot_alignment_check
                    ELSE hours_check]

CreateRuleChecks(i, rule, tz) ==
    LET requested_start_local == Combine(i.date, i.time)
        requested_start == ToUtc(requested_start_local, tz)
        dur == ResolveDuration(i.duration_minutes, rule)
        requested_end_local == ComputeEndTime(requested_start_local, dur.duration)
        requested_end == ToUtc(requested_end_local, tz)
        advance_check == CheckAdvanceLimit(requested_start, rule)
        hours_check == CheckOperatingWindow(requested_start_local, requested_end_local, rule)
        slot_alignment_check == CheckSlotAlignment(requested_start_local, requested_end_local, rule)
    IN  [start |-> requested_start, end |-> requested_end,
         reason |-> IF dur.reason # NoReason THEN dur.reason
                    ELSE IF advance_check # NoReason THEN advance_check
                    ELSE IF hours_check # NoReason THEN hours_check
                    ELSE slot_alignment_check]

\* _run_availability_checks, after the overlap query
RunAvailabilityChecks_capacity_first(bks, overlaps, rule, start_time, end_time, user_id) ==
    IF ~SlotsWithinCapacity(bks, overlaps, start_time, end_time,
                            rule.slot_length_minutes, rule.max_capacity)
    THEN R_NoCapacity
    ELSE IF Truthy(user_id) /\ \E b \in overlaps : bks[b].user_id = user_id
    THEN R_UserOverlap
    ELSE NoReason

RunAvailabilityChecks(bks, overlaps, rule, start_time, end_time, user_id) ==
    IF Truthy(user_id) /\ \E b \in overlaps : bks[b].user_id = user_id
    THEN R_UserOverlap
    ELSE IF ~SlotsWithinCapacity(bks, overlaps, start_time, end_time,
                                 rule.slot_length_minutes, rule.max_capacity)
    THEN R_NoCapacity
    ELSE NoReason

\* db.add(booking) is reached only when the availability checks passed
InsertReached_early(reason) == TRUE

InsertReached(reason) == reason = NoReason

\* _create_booking: the missing-field guard and _resolve_amenity (FOR UPDATE)
CreateResolve(p) ==
    /\ proc[p].pc = "create_resolve"
    /\ LET pr == proc[p]
           i == pr.intent
           rows == ResolveRows(i.amenity, i.building_id)
       IN  IF MissingSchedule(i)
           THEN Return(p, pr, Reject("Missing amenity/date/time for booking intent."))
           ELSE /\ AmenityRowsFree(p, rows)
                /\ IF rows = {}
                   THEN Return(p, pr, Reject(R_AmenityNotFoundOrInactive))
                   ELSE \E a \in rows :
                          /\ amLock' = [x \in AmenityIds |-> IF x \in rows THEN p ELSE amLock[x]]
                          /\ Advance(p, [pr EXCEPT !.pc = "create_rules", !.amenity = a])
                          /\ UNCHANGED bkLocks

\* _create_booking: _load_rule, the building's zone and the rule checks
CreateRules(p) ==
    /\ proc[p].pc = "create_rules"
    /\ LET pr == proc[p]
           a == pr.amenity
       IN  IF rules[a] = <<>>
           THEN Return(p, pr, Reject(R_NoRules))
           ELSE LET checks == CreateRuleChecks(pr.intent, rules[a][1], TzOf(a))
                IN  IF checks.reason # NoReason
                    THEN Return(p, pr, Reject(checks.reason))
                    ELSE /\ Advance(p, [pr EXCEPT !.pc = "create_avail", !.rule = rules[a],
                                                 !.start = checks.start, !.end = checks.end])
                         /\ UNCHANGED <<amLock, bkLocks>>

\* _create_booking: the locking overlap query, the availability checks, db.add and flush
CreateAvail(p) ==
    /\ proc[p].pc = "create_avail"
    /\ LET pr == proc[p]
           rule == pr.rule[1]
           overlaps == OverlapQuery(bookings, pr.amenity, pr.start, pr.end)
           reason == RunAvailabilityChecks(bookings, overlaps, rule, pr.start, pr.end,
                                           pr.intent.user_id)
           added == [pr EXCEPT !.ins = InsertReached(reason)]
       IN  /\ BookingRowsFree(p, overlaps)
           /\ IF reason # NoReason
              THEN Return(p, added, Reject(reason))
              ELSE /\ bkLocks' = bkLocks \cup {<<p, b>> : b \in overlaps}
                   /\ Advance(p, [added EXCEPT !.pc = "create_commit"])
                   /\ UNCHANGED amLock

\* _create_booking: the success result and the commit on leaving db.begin()
CreateCommit(p) ==
    /\ proc[p].pc = "create_commit"
    /\ Return(p, proc[p], BookingResult(TRUE, NoReason, Len(bookings) + 1, TRUE))

\* _create_booking run on the current store for the resolved amenity: _load_rule,
\* the rule checks, the overlap query and the availability checks
CreateDecision(i, a) ==
    IF rules[a] = <<>>
    THEN [success |-> FALSE, reason |-> R_NoRules]
    ELSE LET rule == rules[a][1]
             checks == CreateRuleChecks(i, rule, TzOf(a))
             overlaps == OverlapQuery(bookings, a, checks.start, checks.end)
             reason == IF checks.reason # NoReason THEN checks.reason
                       ELSE RunAvailabilityChecks(bookings, overlaps, rule, checks.start,
                                                  checks.end, i.user_id)
         IN  [success |-> reason = NoReason, reason |-> reason]

(* ------------------------- _cancel_booking ---------------------------- *)

\* the status test of _cancel_booking on the loaded row
AlreadyCancelled_unchecked(status) == FALSE

AlreadyCancelled(status) == status = CANCELLED

\* the ownership test of _cancel_booking: `intent.user_id and booking.user_id != intent.user_id`
OwnerMismatch_ownerless(intent_user, booking_user) ==
    Truthy(intent_user) /\ booking_user # None /\ booking_user # intent_user

OwnerMismatch(intent_user, booking_user) ==
    Truthy(intent_user) /\ booking_user # intent_user

\* _cancel_booking with a booking id: db.get (no lock), ownership, not-found, status
CancelGet(p) ==
    /\ proc[p].pc = "cancel_get"
    /\ LET pr == proc[p]
           i == pr.intent
           b == i.booking_id
           found == b \in DOMAIN bookings
       IN  IF found /\ OwnerMismatch(i.user_id, bookings[b].user_id)
           THEN Return(p, pr, Reject(R_NotOwner))
           ELSE IF ~found
           THEN Return(p, pr, Reject(R_NotFound))
           ELSE IF AlreadyCancelled(bookings[b].status)
           THEN Return(p, pr, Reject(R_AlreadyCancelled))
           ELSE /\ Advance(p, [pr EXCEPT !.pc = "cancel_update", !.target = b])
                /\ UNCHANGED <<amLock, bkLocks>>

\* _cancel_booking without a booking id: the missing-field guard and _resolve_amenity
CancelResolve(p) ==
    /\ proc[p].pc = "cancel_resolve"
    /\ LET pr == proc[p]
           i == pr.intent
           rows == ResolveRows(i.amenity, i.building_id)
       IN  IF MissingSchedule(i)
           THEN Return(p, pr, Reject("Missing amenity/date/time for cancel intent."))
           ELSE /\ AmenityRowsFree(p, rows)
                /\ IF rows = {}
                   THEN Return(p, pr, Reject(R_AmenityNotFound))
                   ELSE \E a \in rows :
                          /\ amLock' = [x \in AmenityIds |-> IF x \in rows THEN p ELSE amLock[x]]
                          /\ Advance(p, [pr EXCEPT !.pc = "cancel_select", !.amenity = a])
                          /\ UNCHANGED bkLocks

\* the rows of the SELECT of _cancel_booking (amenity, start, BOOKED, optional user)
CancelRows(bks, amenity_id, requested_start, user_id) ==
    {b \in DOMAIN bks :
        /\ bks[b].amenity_id = amenity_id
        /\ bks[b].start_time = requested_start
        /\ bks[b].status = BOOKED
        /\ (Truthy(user_id) => bks[b].user_id = user_id)}

\* order_by(created_at.desc()) and db.scalar: a row with the latest created_at
FirstByCreatedDesc_oldest(bks, rows) ==
    {b \in rows : \A c \in rows : bks[b].created_at <= bks[c].created_at}

FirstByCreatedDesc(bks, rows) ==
    {b \in rows : \A c \in rows : bks[c].created_at <= bks[b].created_at}

\* _cancel_booking without a booking id: the locking SELECT, not-found, status
CancelSelect(p) ==
    /\ proc[p].pc = "cancel_select"
    /\ LET pr == proc[p]
           i == pr.intent
           requested_start == ToUtc(Combine(i.date, i.time), TzOf(pr.amenity))
           rows == CancelRows(bookings, pr.amenity, requested_start, i.user_id)
       IN  /\ BookingRowsFree(p, rows)
           /\ IF rows = {}
              THEN Return(p, pr, Reject(R_NotFound))
              ELSE \E b \in FirstByCreatedDesc(bookings, rows) :
                     IF AlreadyCancelled(bookings[b].status)
                     THEN Return(p, pr, Reject(R_AlreadyCancelled))
                     ELSE /\ bkLocks' = bkLocks \cup {<<p, r>> : r \in rows}
                          /\ Advance(p, [pr EXCEPT !.pc = "cancel_update", !.target = b])
                          /\ UNCHANGED amLock

\* _cancel_booking: booking.status = CANCELLED and flush (UPDATE takes the row lock)
CancelUpdate(p) ==
    /\ proc[p].pc = "cancel_update"
    /\ LET pr == proc[p]
       IN  /\ BookingRowsFree(p, {pr.target})
           /\ bkLocks' = bkLocks \cup {<<p, pr.target>>}
           /\ Advance(p, [pr EXCEPT !.pc = "cancel_commit", !.upd = pr.target])
           /\ UNCHANGED amLock

\* _cancel_booking: the success result and the commit on leaving db.begin()
CancelCommit(p) ==
    /\ proc[p].pc = "cancel_commit"
    /\ Return(p, proc[p], BookingResult(TRUE, NoReason, proc[p].target, TRUE))

(* ----------------------- _check_availability -------------------------- *)

\* the rule checks of _check_availability, in the order of the code
CheckRuleChecks_alignment_first(i, rule, tz) ==
    LET requested_start_local == Combine(i.date, i.time)
        requested_start == ToUtc(requested_start_local, tz)
        dur == ResolveDuration(i.duration_minutes, rule)
        requested_end_local == ComputeEndTime(requested_start_local, dur.duration)
        requested_end == ToUtc(requested_end_local, tz)
        advance_check == CheckAdvanceLimit(requested_start, rule)
        hours_check == CheckOperatingWindow(requested_start_local, requested_end_local, rule)
        slot_alignment_check == CheckSlotAlignment(requested_start_local, requested_end_local, rule)
    IN  [start |-> requested_start, end |-> requested_end,
         reason |-> IF dur.reason # NoReason THEN dur.reason
                    ELSE IF slot_alignment_check # NoReason THEN slot_alignment_check
                    ELSE IF advance_check # NoReason THEN advance_check
                    ELSE hours_check]

CheckRuleChecks(i, rule, tz) ==
    LET requested_start_local == Combine(i.date, i.time)
        requested_start == ToUtc(requested_start_local, tz)
        dur == ResolveDuration(i.duration_minutes, rule)
        requested_end_local == ComputeEndTime(requested_start_local, dur.duration)
        requested_end == ToUtc(requested_end_local, tz)
        advance_check == CheckAdvanceLimit(requested_start, rule)
        hours_check == CheckOperatingWindow(requested_start_local, requested_end_local, rule)
        slot_alignment_check == CheckSlotAlignment(requested_start_local, requested_end_local, rule)
    IN  [start |-> requested_start, end |-> requested_end,
         reason |-> IF dur.reason # NoReason THEN dur.reason
                    ELSE IF advance_check # NoReason THEN advance_check
                    ELSE IF hours_check # NoReason THEN hours_check
                    ELSE slot_alignment_check]

\* _check_availability: the missing-field guard and _resolve_amenity (FOR UPDATE)
CheckResolve(p) ==
    /\ proc[p].pc = "check_resolve"
    /\ LET pr == proc[p]
           i == pr.intent
           rows == ResolveRows(i.amenity, i.building_id)
       IN  IF MissingSchedule(i)
           THEN ReturnClose(p, pr, Reject("Missing amenity/date/time for availability intent."))
           ELSE /\ AmenityRowsFree(p, rows)
                /\ IF rows = {}
                   THEN ReturnClose(p, pr, Reject(R_AmenityNotFoundOrInactive))
                   ELSE \E a \in rows :
                          /\ amLock' = [x \in AmenityIds |-> IF x \in rows THEN p ELSE amLock[x]]
                          /\ Advance(p, [pr EXCEPT !.pc = "check_rules", !.amenity = a])
                          /\ UNCHANGED bkLocks

\* _check_availability: _load_rule, the building's zone and the rule checks
CheckRules(p) ==
    /\ proc[p].pc = "check_rules"
    /\ LET pr == proc[p]
           a == pr.amenity
       IN  IF rules[a] = <<>>
           THEN ReturnClose(p, pr, Reject(R_NoRules))
           ELSE LET checks == CheckRuleChecks(pr.intent, rules[a][1], TzOf(a))
                IN  IF checks.reason # NoReason
                    THEN ReturnClose(p, pr, Reject(checks.reason))
                    ELSE /\ Advance(p, [pr EXCEPT !.pc = "check_avail", !.rule = rules[a],
                                                 !.start = checks.start, !.end = checks.end])
                         /\ UNCHANGED <<amLock, bkLocks>>

\* _check_availability: the overlap query without lock and the result
CheckAvail_books(p) ==
    /\ proc[p].pc = "check_avail"
    /\ LET pr == proc[p]
           overlaps == OverlapQuery(bookings, pr.amenity, pr.start, pr.end)
           reason == RunAvailabilityChecks(bookings, overlaps, pr.rule[1], pr.start, pr.end,
                                           pr.intent.user_id)
       IN  Return(p, [pr EXCEPT !.ins = (reason = NoReason)],
                  BookingResult(reason = NoReason, reason, NoId, reason = NoReason))

CheckAvail(p) ==
    /\ proc[p].pc = "check_avail"
    /\ LET pr == proc[p]
           overlaps == OverlapQuery(bookings, pr.amenity, pr.start, pr.end)
           reason == RunAvailabilityChecks(bookings, overlaps, pr.rule[1], pr.start, pr.end,
                                           pr.intent.user_id)
       IN  ReturnClose(p, pr, BookingResult(reason = NoReason, reason, NoId, reason = NoReason))

(* ------------------------ persistence failure ------------------------- *)

InCreate == {"create_resolve", "create_rules", "create_avail", "create_commit"}
InCancel == {"cancel_get", "cancel_resolve", "cancel_select", "cancel_update", "cancel_commit"}
InCheck == {"check_resolve", "check_rules", "check_avail"}

\* what the bookings table holds after a failed transaction
AfterFailure_partial(bks, pr) == Committed(bks, pr)

AfterFailure(bks, pr) == RolledBack(bks, pr)

\* a statement or the commit raises SQLAlchemyError: `except SQLAlchemyError` of
\* _create_booking and _cancel_booking; _check_availability has no handler
Fail(p) ==
    /\ proc[p].pc \in InCreate \cup InCancel \cup InCheck
    /\ nfail < MaxFailures
    /\ nfail' = nfail + 1
    /\ bookings' = AfterFailure(bookings, proc[p])
    /\ Release(p)
    /\ proc' = [proc EXCEPT ![p] =
          IF proc[p].pc \in InCreate THEN DoneProc(proc[p], "done", Reject(R_DbCreate))
          ELSE IF proc[p].pc \in InCancel THEN DoneProc(proc[p], "done", Reject(R_DbCancel))
          ELSE DoneProc(proc[p], "raised", NoResult)]
    /\ UNCHANGED <<scope, tzOffset, amenities, rules, nreq>>

(* ----------------------- update_amenity_rules ------------------------ *)

\* an Optional field of AmenityRuleUpdateRequest that the payload leaves out, and a
\* column of a new AmenityRule() that has no value before the INSERT
Unset == -1

R_InvalidRule == "Invalid rule payload"
R_BuildingMismatch == "Amenity and building_id do not match."
R_RuleMaxLtSlot == "max_duration_minutes must be greater than or equal to slot_length_minutes."
R_RuleNotMultiple == "max_duration_minutes must be a multiple of slot_length_minutes."
R_RuleWindow == "operating_start_time must be earlier than operating_end_time."
R_DbRules == "Database error while updating rules."
TypeError == "TypeError"

RuleInvariantReasons == {R_RuleMaxLtSlot, R_RuleNotMultiple, R_RuleWindow}

\* schema.AmenityRuleUpdateRequest; allow_overlap is <<>> when left out
RuleRequest(amenity_id, building_id, max_capacity, max_duration_minutes, slot_length_minutes, advance_booking_limit_days, operating_start_time, operating_end_time, allow_overlap) ==
    [kind |-> "UPDATE_RULES", amenity_id |-> amenity_id, building_id |-> building_id,
     max_capacity |-> max_capacity, max_duration_minutes |-> max_duration_minutes,
     slot_length_minutes |-> slot_length_minutes,
     advance_booking_limit_days |-> advance_booking_limit_days,
     operating_start_time |-> operating_start_time,
     operating_end_time |-> operating_end_time, allow_overlap |-> allow_overlap]

\* the Field(ge=...) constraints and validate_time_window of AmenityRuleUpdateRequest
ValidRuleRequest(r) ==
    /\ r.max_capacity = Unset \/ r.max_capacity >= 1
    /\ r.max_duration_minutes = Unset \/ r.max_duration_minutes >= 1
    /\ r.slot_length_minutes = Unset \/ r.slot_length_minutes >= 1
    /\ r.advance_booking_limit_days = Unset \/ r.advance_booking_limit_days >= 0
    /\ (r.operating_start_time # Unset /\ r.operating_end_time # Unset)
          => r.operating_start_time < r.operating_end_time

\* schema.AdminActionResult
AdminActionResult(success, reason, amenity_id) ==
    [success |-> success, reason |-> reason, amenity_id |-> amenity_id]

\* the column defaults of models.AmenityRule, applied by the INSERT
ColumnDefaults ==
    [max_capacity |-> 1,
     max_duration_minutes |-> 60,
     slot_length_minutes |-> 30,
     advance_booking_limit_days |-> 7,
     operating_start_time |-> 6 * 60,
     operating_end_time |-> 22 * 60,
     allow_overlap |-> FALSE]

RuleFields == DOMAIN ColumnDefaults

\* AmenityRule(amenity_id=..., building_id=...) before the flush: no column has a
\* value yet; allow_overlap is never read before the INSERT, so it holds its default
PendingRule == [f \in RuleFields |-> IF f = "allow_overlap" THEN FALSE ELSE Unset]

\* the `if model.<field> is not None: rule.<field> = model.<field>` assignments
MergeRule_overwrite(rule, r) ==
    [f \in RuleFields |->
        IF f = "allow_overlap"
        THEN (IF r.allow_overlap # <<>> THEN r.allow_overlap[1] ELSE ColumnDefaults[f])
        ELSE (IF r[f] # Unset THEN r[f] ELSE ColumnDefaults[f])]

MergeRule(rule, r) ==
    [f \in RuleFields |->
        IF f = "allow_overlap"
        THEN (IF r.allow_overlap # <<>> THEN r.allow_overlap[1] ELSE rule[f])
        ELSE (IF r[f] # Unset THEN r[f] ELSE rule[f])]

\* the three cross-field tests on the merged rule object, in the order of the code;
\* a comparison with a column that has no value raises TypeError
RuleInvariantCheck(rule) ==
    IF rule.max_duration_minutes = Unset \/ rule.slot_length_minutes = Unset
    THEN TypeError
    ELSE IF rule.max_duration_minutes < rule.slot_length_minutes
    THEN R_RuleMaxLtSlot
    ELSE IF rule.max_duration_minutes % rule.slot_length_minutes # 0
    THEN R_RuleNotMultiple
    ELSE IF rule.operating_start_time = Unset \/ rule.operating_end_time = Unset
    THEN TypeError
    ELSE IF rule.operating_start_time >= rule.operating_end_time
    THEN R_RuleWindow
    ELSE NoReason

\* the row written by the flush: columns without a value take the column default
Flushed(rule) ==
    [f \in RuleFields |->
        IF f # "allow_overlap" /\ rule[f] = Unset THEN ColumnDefaults[f] ELSE rule[f]]

\* leaving `with db.begin():` by `return`, after a rejection as after success,
\* commits: the session flushes the rule object as it then is
CommitOnReturn(table, a, rule, check) == [table EXCEPT ![a] = <<Flushed(rule)>>]

\* the payloads of the administrator
RuleRequests ==
    {RuleRequest("amen1", None, Unset, d, s, Unset, st, e, <<>>) :
        d \in {Unset, 50, 90}, s \in {Unset, 45}, st \in {Unset, 1380}, e \in {Unset, 300}}
    \cup {RuleRequest("amen2", None, Unset, d, s, Unset, w[1], w[2], <<>>) :
        d \in {Unset, 50, 90}, s \in {Unset, 45},
        w \in {<<Unset, Unset>>, <<420, Unset>>, <<420, 1200>>}}
    \cup {RuleRequest(a, None, c, Unset, Unset, 3, Unset, Unset, <<TRUE>>) :
        a \in {"amen1", "amen2"}, c \in {0, 2}}
    \cup {RuleRequest(a, bd, 2, Unset, Unset, Unset, Unset, Unset, <<>>) :
        a \in {"amen1", "amen9"}, bd \in {"b1", "b2"}}

\* the payloads of two administrators at the same time
RaceRuleRequests ==
    {RuleRequest("amen2", None, Unset, w[1], w[2], Unset, w[3], w[4], <<>>) :
        w \in {<<Unset, Unset, Unset, Unset>>, <<90, 45, 420, 1200>>, <<60, 30, 480, 1200>>}}
    \cup {RuleRequest("amen1", None, Unset, d, s, Unset, Unset, Unset, <<>>) :
        d \in {Unset, 90}, s \in {Unset, 20}}

\* the payloads of an administrator while residents book: a lower max_capacity,
\* a longer slot
ManagedRuleRequests ==
    {RuleRequest("amen1", None, c, Unset, s, Unset, Unset, Unset, <<>>) :
        c \in {Unset, 1}, s \in {Unset, 60}}

RuleRequestsOf(sc) ==
    CASE sc = "admin_race" -> RaceRuleRequests
      [] sc = "managed" -> ManagedRuleRequests
      [] OTHER -> RuleRequests

\* the UPDATE of a loaded rule writes the columns whose value was changed on the
\* object; the other columns keep what is committed. A new rule is INSERTed whole.
DirtyColumns(committed, loaded, rule) ==
    IF loaded = <<>> THEN rule
    ELSE [f \in RuleFields |-> IF rule[f] # loaded[1][f] THEN rule[f] ELSE committed[1][f]]

\* the unique index on amenity_rules.amenity_id refuses a second INSERT
UniqueViolation(table, a, loaded) == loaded = <<>> /\ table[a] # <<>>

InitAdmin ==
    /\ scope = "admin"
    /\ tzOffset = 0
    /\ rules = RulesTable(1)
    /\ amenities = [a \in AmenityIds |->
            CASE a = "amen1" -> [building_id |-> "b1", name |-> "Gym", is_active |-> TRUE]
              [] a = "amen2" -> [building_id |-> "b1", name |-> "Pool", is_active |-> TRUE]
              [] OTHER -> [building_id |-> "b1", name |-> "Sauna", is_active |-> FALSE]]
    /\ bookings = <<>>
    /\ amLock = [a \in AmenityIds |-> NoProc]
    /\ bkLocks = {}
    /\ proc = [p \in Procs |-> IdleProc]
    /\ nreq = 0
    /\ nfail = 0

\* residents book the Gym while an administrator updates its rule
InitManaged ==
    /\ scope = "managed"
    /\ tzOffset = 330
    /\ rules = RulesTable(2)
    /\ amenities = [a \in AmenityIds |->
            CASE a = "amen1" -> [building_id |-> "b1", name |-> "Gym", is_active |-> TRUE]
              [] a = "amen2" -> [building_id |-> "b1", name |-> "Pool", is_active |-> TRUE]
              [] OTHER -> [building_id |-> "b1", name |-> "Sauna", is_active |-> FALSE]]
    /\ bookings = <<>>
    /\ amLock = [a \in AmenityIds |-> NoProc]
    /\ bkLocks = {}
    /\ proc = [p \in Procs |-> IdleProc]
    /\ nreq = 0
    /\ nfail = 0

\* two administrators update rules at the same time
InitAdminRace ==
    /\ scope = "admin_race"
    /\ tzOffset = 0
    /\ rules = RulesTable(1)
    /\ amenities = [a \in AmenityIds |->
            CASE a = "amen1" -> [building_id |-> "b1", name |-> "Gym", is_active |-> TRUE]
              [] a = "amen2" -> [building_id |-> "b1", name |-> "Pool", is_active |-> TRUE]
              [] OTHER -> [building_id |-> "b1", name |-> "Sauna", is_active |-> FALSE]]
    /\ bookings = <<>>
    /\ amLock = [a \in AmenityIds |-> NoProc]
    /\ bkLocks = {}
    /\ proc = [p \in Procs |-> IdleProc]
    /\ nreq = 0
    /\ nfail = 0

\* update_amenity_rules: validation of the payload
UpdateRulesBegin(p) ==
    /\ p \in ActiveProcs(scope)
    /\ proc[p].pc \in {"idle", "done", "raised"}
    /\ nreq < MaxRequests
    /\ \E r \in RuleRequestsOf(scope) :
          proc' = [proc EXCEPT ![p] =
              IF ~ValidRuleRequest(r)
              THEN [IdleProc EXCEPT !.pc = "done", !.intent = r,
                                    !.result = AdminActionResult(FALSE, R_InvalidRule, None)]
              ELSE [IdleProc EXCEPT !.pc = "update_load", !.intent = r]]
    /\ nreq' = nreq + 1
    /\ UNCHANGED <<scope, tzOffset, amenities, rules, bookings, amLock, bkLocks, nfail>>

\* update_amenity_rules: db.get(Amenity), the building test and _load_rule, no lock
UpdateRulesLoad(p) ==
    /\ proc[p].pc = "update_load"
    /\ LET pr == proc[p]
           r == pr.intent
           reject(reason) == [IdleProc EXCEPT !.pc = "done", !.intent = r,
                                              !.result = AdminActionResult(FALSE, reason, None)]
       IN  proc' = [proc EXCEPT ![p] =
              IF r.amenity_id \notin AmenityIds
              THEN reject(R_AmenityNotFound)
              ELSE IF r.building_id # None /\ r.building_id # amenities[r.amenity_id].building_id
              THEN reject(R_BuildingMismatch)
              ELSE [pr EXCEPT !.pc = "update_apply", !.amenity = r.amenity_id,
                              !.rule = rules[r.amenity_id]]]
    /\ UNCHANGED <<scope, tzOffset, amenities, rules, bookings, amLock, bkLocks, nreq, nfail>>

\* update_amenity_rules: the new or loaded rule object, the field assignments, the
\* cross-field tests, and the end of `with db.begin():` (commit on return, rollback
\* on TypeError, which `except SQLAlchemyError` does not catch)
UpdateRulesApply(p) ==
    /\ proc[p].pc = "update_apply"
    /\ LET pr == proc[p]
           r == pr.intent
           a == pr.amenity
           rule == MergeRule(IF pr.rule = <<>> THEN PendingRule ELSE pr.rule[1], r)
           check == RuleInvariantCheck(rule)
           unique_violation == UniqueViolation(rules, a, pr.rule)
           done(result) == [IdleProc EXCEPT !.pc = "done", !.intent = r, !.result = result]
       IN  IF check = TypeError
           THEN /\ rules' = rules
                /\ proc' = [proc EXCEPT ![p] = [IdleProc EXCEPT !.pc = "raised", !.intent = r]]
           ELSE IF unique_violation
           THEN /\ rules' = rules
                /\ proc' = [proc EXCEPT ![p] = done(AdminActionResult(FALSE, R_DbRules, None))]
           ELSE /\ rules' = CommitOnReturn(rules, a, DirtyColumns(rules[a], pr.rule, rule), check)
                /\ proc' = [proc EXCEPT ![p] =
                      done(IF check = NoReason THEN AdminActionResult(TRUE, NoReason, a)
                           ELSE AdminActionResult(FALSE, check, None))]
    /\ UNCHANGED <<scope, tzOffset, amenities, bookings, amLock, bkLocks, nreq, nfail>>

\* a statement or the commit raises SQLAlchemyError: rollback and the generic reason
UpdateRulesFail(p) ==
    /\ proc[p].pc \in {"update_load", "update_apply"}
    /\ nfail < MaxFailures
    /\ nfail' = nfail + 1
    /\ proc' = [proc EXCEPT ![p] =
          [IdleProc EXCEPT !.pc = "done", !.intent = proc[p].intent,
                           !.result = AdminActionResult(FALSE, R_DbRules, None)]]
    /\ UNCHANGED <<scope, tzOffset, amenities, rules, bookings, amLock, bkLocks, nreq>>

(* -------------------------- upsert_amenity ---------------------------- *)

R_InvalidAmenity == "Invalid amenity payload"
R_BuildingNotFound == "Building not found."
R_OtherBuilding == "Amenity belongs to a different building."
R_DbUpsert == "Database error while upserting amenity."

\* the buildings table
Buildings == {"b1", "b2"}

\* schema.AmenityUpsertRequest
UpsertRequest(building_id, amenity_id, name, capacity, is_active) ==
    [kind |-> "UPSERT_AMENITY", building_id |-> building_id, amenity_id |-> amenity_id,
     name |-> name, capacity |-> capacity, is_active |-> is_active]

\* Field(min_length=1) on name and Field(ge=1) on capacity
ValidUpsertRequest(r) == r.name # "" /\ (r.capacity = Unset \/ r.capacity >= 1)

\* models.Amenity with its capacity column
AmenityRow(building_id, name, capacity, is_active) ==
    [building_id |-> building_id, name |-> name, capacity |-> capacity,
     is_active |-> is_active]

\* the transaction of upsert_amenity on the amenities table ams; fresh is the uuid
\* of a created amenity
UpsertTxn_moves(ams, r, fresh) ==
    IF r.building_id \notin Buildings
    THEN [reason |-> R_BuildingNotFound, amenities |-> ams, amenity_id |-> None]
    ELSE IF r.amenity_id # None /\ r.amenity_id \in DOMAIN ams
    THEN [reason |-> NoReason,
          amenities |-> [ams EXCEPT ![r.amenity_id] =
              AmenityRow(r.building_id, r.name,
                         IF r.capacity # Unset THEN r.capacity ELSE @.capacity, r.is_active)],
          amenity_id |-> r.amenity_id]
    ELSE [reason |-> NoReason,
          amenities |-> [a \in DOMAIN ams \cup {fresh} |->
              IF a = fresh
              THEN AmenityRow(r.building_id, r.name,
                              IF r.capacity # Unset THEN r.capacity ELSE 1, r.is_active)
              ELSE ams[a]],
          amenity_id |-> fresh]

UpsertTxn(ams, r, fresh) ==
    IF r.building_id \notin Buildings
    THEN [reason |-> R_BuildingNotFound, amenities |-> ams, amenity_id |-> None]
    ELSE IF r.amenity_id # None /\ r.amenity_id \in DOMAIN ams
    THEN IF ams[r.amenity_id].building_id # r.building_id
         THEN [reason |-> R_OtherBuilding, amenities |-> ams, amenity_id |-> None]
         ELSE [reason |-> NoReason,
               amenities |-> [ams EXCEPT ![r.amenity_id] =
                   AmenityRow(@.building_id, r.name,
                              IF r.capacity # Unset THEN r.capacity ELSE @.capacity,
                              r.is_active)],
               amenity_id |-> r.amenity_id]
    ELSE [reason |-> NoReason,
          amenities |-> [a \in DOMAIN ams \cup {fresh} |->
              IF a = fresh
              THEN AmenityRow(r.building_id, r.name,
                              IF r.capacity # Unset THEN r.capacity ELSE 1, r.is_active)
              ELSE ams[a]],
          amenity_id |-> fresh]

\* the payloads of the administrator
UpsertRequests ==
    {UpsertRequest(bd, a, n, c, act) :
        bd \in Buildings \cup {"b9"}, a \in {None, "amen1", "amen3"},
        n \in {"Gym", "Spa", ""}, c \in {Unset, 5}, act \in BOOLEAN}

\* a Gym in b1 and a Pool in b2; the id amen3 is not in use
InitUpsert ==
    /\ scope = "upsert"
    /\ tzOffset = 0
    /\ rules = RulesTable(1)
    /\ amenities = [a \in {"amen1", "amen2"} |->
            IF a = "amen1" THEN AmenityRow("b1", "Gym", 1, TRUE)
            ELSE AmenityRow("b2", "Pool", 1, TRUE)]
    /\ bookings = <<>>
    /\ amLock = [a \in AmenityIds |-> NoProc]
    /\ bkLocks = {}
    /\ proc = [p \in Procs |-> IdleProc]
    /\ nreq = 0
    /\ nfail = 0

\* upsert_amenity: validation of the payload
UpsertBegin(p) ==
    /\ p \in ActiveProcs(scope)
    /\ proc[p].pc \in {"idle", "done", "raised"}
    /\ nreq < MaxRequests
    /\ \E r \in UpsertRequests :
          proc' = [proc EXCEPT ![p] =
              IF ~ValidUpsertRequest(r)
              THEN [IdleProc EXCEPT !.pc = "done", !.intent = r,
                                    !.result = AdminActionResult(FALSE, R_InvalidAmenity, None)]
              ELSE [IdleProc EXCEPT !.pc = "upsert_apply", !.intent = r]]
    /\ nreq' = nreq + 1
    /\ UNCHANGED <<scope, tzOffset, amenities, rules, bookings, amLock, bkLocks, nfail>>

\* str(uuid.uuid4()): an id that is not in use; which one makes no difference
Uuids == {"uuid1", "uuid2", "uuid3", "uuid4", "uuid5"}

\* upsert_amenity: the transaction, committed on return
UpsertApply(p) ==
    /\ proc[p].pc = "upsert_apply"
    /\ Uuids \ DOMAIN amenities # {}
    /\ LET r == proc[p].intent
           fresh == CHOOSE u \in Uuids \ DOMAIN amenities : TRUE
           txn == UpsertTxn(amenities, r, fresh)
       IN  /\ amenities' = txn.amenities
              /\ proc' = [proc EXCEPT ![p] =
                    [IdleProc EXCEPT !.pc = "done", !.intent = r,
                        !.result = AdminActionResult(txn.reason = NoReason, txn.reason,
                                                     txn.amenity_id)]]
    /\ UNCHANGED <<scope, tzOffset, rules, bookings, amLock, bkLocks, nreq, nfail>>

\* a statement or the commit raises SQLAlchemyError: rollback and the generic reason
UpsertFail(p) ==
    /\ proc[p].pc = "upsert_apply"
    /\ nfail < MaxFailures
    /\ nfail' = nfail + 1
    /\ proc' = [proc EXCEPT ![p] =
          [IdleProc EXCEPT !.pc = "done", !.intent = proc[p].intent,
                           !.result = AdminActionResult(FALSE, R_DbUpsert, None)]]
    /\ UNCHANGED <<scope, tzOffset, amenities, rules, bookings, amLock, bkLocks, nreq>>

(* --------------------------- specification ---------------------------- *)

Next ==
    \/ \E p \in Procs : Begin(p)
    \/ \E p \in Procs : CreateResolve(p)
    \/ \E p \in Procs : CreateRules(p)
    \/ \E p \in Procs : CreateAvail(p)
    \/ \E p \in Procs : CreateCommit(p)
    \/ \E p \in Procs : CancelGet(p)
    \/ \E p \in Procs : CancelResolve(p)
    \/ \E p \in Procs : CancelSelect(p)
    \/ \E p \in Procs : CancelUpdate(p)
    \/ \E p \in Procs : CancelCommit(p)
    \/ \E p \in Procs : CheckResolve(p)
    \/ \E p \in Procs : CheckRules(p)
    \/ \E p \in Procs : CheckAvail(p)
    \/ \E p \in Procs : Fail(p)

Spec == Init /\ [][Next]_vars

SpecBuildings == InitBuildings /\ [][Next]_vars

SpecScenario == InitScenario /\ [][Next]_vars

\* the steps of worker p after its request was received
Step(p) ==
    \/ CreateResolve(p) \/ CreateRules(p) \/ CreateAvail(p) \/ CreateCommit(p)
    \/ CancelGet(p) \/ CancelResolve(p) \/ CancelSelect(p) \/ CancelUpdate(p)
    \/ CancelCommit(p)
    \/ CheckResolve(p) \/ CheckRules(p) \/ CheckAvail(p)

\* the engine without store failures
NextLive ==
    \/ \E p \in Procs : Begin(p)
    \/ \E p \in Procs : CreateResolve(p)
    \/ \E p \in Procs : CreateRules(p)
    \/ \E p \in Procs : CreateAvail(p)
    \/ \E p \in Procs : CreateCommit(p)
    \/ \E p \in Procs : CancelGet(p)
    \/ \E p \in Procs : CancelResolve(p)
    \/ \E p \in Procs : CancelSelect(p)
    \/ \E p \in Procs : CancelUpdate(p)
    \/ \E p \in Procs : CancelCommit(p)
    \/ \E p \in Procs : CheckResolve(p)
    \/ \E p \in Procs : CheckRules(p)
    \/ \E p \in Procs : CheckAvail(p)

\* two workers on the Gyms of two buildings, on the same Gym or on different
\* ones; every worker thread keeps running, and a statement that waits for a row
\* lock goes on once the lock is free
SpecLive ==
    /\ InitBuildings
    /\ [][NextLive]_vars
    /\ \A p \in Procs : WF_vars(Step(p))

NextAdmin ==
    \/ \E p \in Procs : UpdateRulesBegin(p)
    \/ \E p \in Procs : UpdateRulesLoad(p)
    \/ \E p \in Procs : UpdateRulesApply(p)
    \/ \E p \in Procs : UpdateRulesFail(p)

SpecAdmin == InitAdmin /\ [][NextAdmin]_vars

SpecAdminRace == InitAdminRace /\ [][NextAdmin]_vars

NextManaged ==
    \/ \E p \in Procs : Begin(p)
    \/ \E p \in Procs : CreateResolve(p)
    \/ \E p \in Procs : CreateRules(p)
    \/ \E p \in Procs : CreateAvail(p)
    \/ \E p \in Procs : CreateCommit(p)
    \/ \E p \in Procs : CancelGet(p)
    \/ \E p \in Procs : CancelResolve(p)
    \/ \E p \in Procs : CancelSelect(p)
    \/ \E p \in Procs : CancelUpdate(p)
    \/ \E p \in Procs : CancelCommit(p)
    \/ \E p \in Procs : CheckResolve(p)
    \/ \E p \in Procs : CheckRules(p)
    \/ \E p \in Procs : CheckAvail(p)
    \/ \E p \in Procs : Fail(p)
    \/ \E p \in Procs : UpdateRulesBegin(p)
    \/ \E p \in Procs : UpdateRulesLoad(p)
    \/ \E p \in Procs : UpdateRulesApply(p)
    \/ \E p \in Procs : UpdateRulesFail(p)

SpecManaged == InitManaged /\ [][NextManaged]_vars

NextUpsert ==
    \/ \E p \in Procs : UpsertBegin(p)
    \/ \E p \in Procs : UpsertApply(p)
    \/ \E p \in Procs : UpsertFail(p)

SpecUpsert == InitUpsert /\ [][NextUpsert]_vars

(* ------------------------ availability queries ------------------------ *)

\* HTTPException(status_code, detail)
HTTPException(status_code, detail) == [status_code |-> status_code, detail |-> detail]

D_AmenityNotFound == "Amenity not found or inactive."
D_BuildingMismatch == "Amenity and building_id do not match."
D_NoRules == "Amenity rules are not configured."

\* max(rule.max_capacity - active_count, 0)
Remaining(max_capacity, active_count) ==
    IF max_capacity - active_count > 0 THEN max_capacity - active_count ELSE 0

AmenitySlotAvailability(slot_start, slot_end, remaining_capacity, max_capacity) ==
    [slot_start |-> slot_start, slot_end |-> slot_end,
     remaining_capacity |-> remaining_capacity, max_capacity |-> max_capacity]

\* datetime.time() of a naive datetime
TimeOf(dt) == dt % MinutesPerDay

\* every slot of the operating window with its remaining capacity
SlotRows(bks, amenity_id, rule, day, offset) ==
    LET slots == SplitIntoSlots(Combine(day, rule.operating_start_time),
                                Combine(day, rule.operating_end_time),
                                rule.slot_length_minutes)
    IN  [k \in DOMAIN slots |->
            AmenitySlotAvailability(
                TimeOf(slots[k][1]), TimeOf(slots[k][2]),
                Remaining(rule.max_capacity,
                          OverlapCount(bks, amenity_id, ToUtc(slots[k][1], offset),
                                       ToUtc(slots[k][2], offset))),
                rule.max_capacity)]

AvailableSlots_all(bks, amenity_id, rule, day, offset) ==
    SlotRows(bks, amenity_id, rule, day, offset)

\* the loop of get_amenity_availability: a slot is appended `if remaining > 0`
AvailableSlots(bks, amenity_id, rule, day, offset) ==
    SelectSeq(SlotRows(bks, amenity_id, rule, day, offset),
              LAMBDA row : row.remaining_capacity > 0)

\* get_amenity_availability
GetAmenityAvailability(ams, rls, bks, amenity_id, building_id, day, offset) ==
    IF amenity_id \notin DOMAIN ams \/ ~ams[amenity_id].is_active
    THEN HTTPException(404, D_AmenityNotFound)
    ELSE IF ams[amenity_id].building_id # building_id
    THEN HTTPException(400, D_BuildingMismatch)
    ELSE IF rls[amenity_id] = <<>>
    THEN HTTPException(404, D_NoRules)
    ELSE [status_code |-> 200,
          amenity_id |-> amenity_id,
          building_id |-> ams[amenity_id].building_id,
          date |-> day,
          slot_length_minutes |-> rls[amenity_id][1].slot_length_minutes,
          slots |-> AvailableSlots(bks, amenity_id, rls[amenity_id][1], day, offset)]

\* the day the queries are about
QueryDay == NowUtc \div MinutesPerDay + 1

\* rows the bookings table can hold for that day: Gym bookings of one or two
\* slots, booked or cancelled, and one Pool booking
QueryBookings(offset) ==
    {[Booking("b1", "amen1", None, ToUtc(Combine(QueryDay, t), offset),
              ToUtc(Combine(QueryDay, t + d), offset), 0) EXCEPT !.status = st] :
        t \in {360, 390}, d \in {30, 60}, st \in {BOOKED, CANCELLED}}
    \cup {Booking("b1", "amen2", None, ToUtc(Combine(QueryDay, 360), offset),
                  ToUtc(Combine(QueryDay, 390), offset), 0)}

\* rules the Gym can have: update_amenity_rules sets max_capacity and the
\* operating window without looking at the stored bookings
QueryRules ==
    {[AmenityRule(cap) EXCEPT !.operating_end_time = e] : cap \in {1, 2}, e \in {465, 480}}

ListingRequests ==
    [kind : {"LISTING"}, amenity_id : AmenityIds \cup {"amen9"},
     building_id : Buildings, day : {QueryDay}]

CapacityRequests(kind) ==
    [kind : {kind}, amenity_id : {"amen1"}, start_time : {360, 390},
     minutes : {30, 45, 60}, slot_length_minutes : {15, 30}, max_capacity : {1, 2}]

SplitRequests ==
    [kind : {"SPLIT_INTO_SLOTS"}, start_time : {0, 30}, end_time : {0, 30, 45, 60},
     slot_length_minutes : {1, 15, 30, 45}]

InitQueries ==
    /\ scope = "queries"
    /\ tzOffset \in {0, 330}
    /\ rules \in {[a \in AmenityIds |-> IF a = "amen1" THEN <<r>> ELSE <<>>] : r \in QueryRules}
    /\ amenities = [a \in AmenityIds |->
            CASE a = "amen1" -> [building_id |-> "b1", name |-> "Gym", is_active |-> TRUE]
              [] a = "amen2" -> [building_id |-> "b1", name |-> "Pool", is_active |-> TRUE]
              [] OTHER -> [building_id |-> "b1", name |-> "Sauna", is_active |-> FALSE]]
    /\ bookings \in UNION {[1..n -> QueryBookings(tzOffset)] : n \in 0..MaxStored}
    /\ amLock = [a \in AmenityIds |-> NoProc]
    /\ bkLocks = {}
    /\ proc = [p \in Procs |-> IdleProc]
    /\ nreq = 0
    /\ nfail = 0

\* a call returns its value and leaves the store as it was
Answer(p, request, result) ==
    /\ proc' = [proc EXCEPT ![p] = [IdleProc EXCEPT !.pc = "done", !.intent = request,
                                                     !.result = result]]
    /\ UNCHANGED <<scope, tzOffset, amenities, rules, bookings, amLock, bkLocks, nreq, nfail>>

\* GET availability of an amenity
ListAvailability(p) ==
    /\ p \in ActiveProcs(scope)
    /\ proc[p].pc = "idle"
    /\ \E r \in ListingRequests :
          Answer(p, r, GetAmenityAvailability(amenities, rules, bookings, r.amenity_id,
                                              r.building_id, r.day, TzOf(r.amenity_id)))

\* the requested interval of a capacity test, in UTC
RequestStart(r) == ToUtc(Combine(QueryDay, r.start_time), tzOffset)
RequestEnd(r) == ToUtc(Combine(QueryDay, r.start_time + r.minutes), tzOffset)

\* slots_within_capacity on the rows overlap_query returns for the interval
CallSlotsWithinCapacity(p) ==
    /\ p \in ActiveProcs(scope)
    /\ proc[p].pc = "idle"
    /\ \E r \in CapacityRequests("SLOTS_WITHIN_CAPACITY") :
          Answer(p, r,
                 SlotsWithinCapacity(bookings,
                     OverlapQuery(bookings, r.amenity_id, RequestStart(r), RequestEnd(r)),
                     RequestStart(r), RequestEnd(r), r.slot_length_minutes, r.max_capacity))

\* capacity_available
CallCapacityAvailable(p) ==
    /\ p \in ActiveProcs(scope)
    /\ proc[p].pc = "idle"
    /\ \E r \in CapacityRequests("CAPACITY_AVAILABLE") :
          Answer(p, r, CapacityAvailable(bookings, r.amenity_id, RequestStart(r),
                                         RequestEnd(r), r.max_capacity))

\* split_into_slots
CallSplitIntoSlots(p) ==
    /\ p \in ActiveProcs(scope)
    /\ proc[p].pc = "idle"
    /\ \E r \in SplitRequests :
          Answer(p, r, SplitIntoSlots(r.start_time, r.end_time, r.slot_length_minutes))

NextQueries ==
    \/ \E p \in Procs : ListAvailability(p)
    \/ \E p \in Procs : CallSlotsWithinCapacity(p)
    \/ \E p \in Procs : CallCapacityAvailable(p)
    \/ \E p \in Procs : CallSplitIntoSlots(p)

SpecQueries == InitQueries /\ [][NextQueries]_vars

(* ---------------------------- rule checks ------------------------------ *)

\* rules the Gym can have: max_duration_minutes a multiple of slot_length_minutes
RuleSamples ==
    {[AmenityRule(1) EXCEPT !.max_duration_minutes = d[1], !.slot_length_minutes = d[2],
                            !.advance_booking_limit_days = n] :
        d \in {<<60, 30>>, <<60, 15>>, <<30, 30>>, <<60, 60>>}, n \in {0, 1, 7}}

DurationRequests ==
    [kind : {"RESOLVE_DURATION"}, requested : {NoDur, 15, 30, 45, 60, 75, 90}]

\* starts around now and around one, seven and eight days from now, in UTC minutes
AdvanceRequests ==
    [kind : {"CHECK_ADVANCE_LIMIT"},
     start_time : {NowUtc + d * MinutesPerDay + m : d \in {0, 1, 7, 8}, m \in {-1, 0, 1}}]

\* a local instant of the queried day, in half seconds
LocalAt(hour, minute, half_seconds) ==
    ((QueryDay * MinutesPerDay + hour * 60 + minute) * HalfSecondsPerMinute) + half_seconds

\* starts and ends around 06:00, on and off the minute and the second
AlignmentRequests ==
    [kind : {"CHECK_SLOT_ALIGNMENT"},
     start_time : {LocalAt(5, 30, 0), LocalAt(5, 59, 119), LocalAt(6, 0, 0), LocalAt(6, 0, 1),
                   LocalAt(6, 0, 60), LocalAt(6, 15, 0), LocalAt(6, 30, 0), LocalAt(7, 0, 0)},
     end_time : {LocalAt(5, 45, 0), LocalAt(6, 0, 0), LocalAt(6, 30, 0), LocalAt(6, 30, 1),
                 LocalAt(6, 45, 0), LocalAt(7, 0, 0)}]

InitRules ==
    /\ scope = "rules"
    /\ tzOffset = 0
    /\ rules \in {[a \in AmenityIds |-> IF a = "amen1" THEN <<r>> ELSE <<>>] : r \in RuleSamples}
    /\ amenities = [a \in AmenityIds |->
            CASE a = "amen1" -> [building_id |-> "b1", name |-> "Gym", is_active |-> TRUE]
              [] a = "amen2" -> [building_id |-> "b1", name |-> "Pool", is_active |-> TRUE]
              [] OTHER -> [building_id |-> "b1", name |-> "Sauna", is_active |-> FALSE]]
    /\ bookings = <<>>
    /\ amLock = [a \in AmenityIds |-> NoProc]
    /\ bkLocks = {}
    /\ proc = [p \in Procs |-> IdleProc]
    /\ nreq = 0
    /\ nfail = 0

\* RuleEngine.resolve_duration_minutes
CallResolveDuration(p) ==
    /\ p \in ActiveProcs(scope)
    /\ proc[p].pc = "idle"
    /\ \E r \in DurationRequests :
          Answer(p, r, ResolveDuration(r.requested, rules["amen1"][1]))

\* RuleEngine.check_advance_limit
CallCheckAdvanceLimit(p) ==
    /\ p \in ActiveProcs(scope)
    /\ proc[p].pc = "idle"
    /\ \E r \in AdvanceRequests :
          Answer(p, r, CheckAdvanceLimit(r.start_time, rules["amen1"][1]))

\* RuleEngine.check_slot_alignment
CallCheckSlotAlignment(p) ==
    /\ p \in ActiveProcs(scope)
    /\ proc[p].pc = "idle"
    /\ \E r \in AlignmentRequests :
          Answer(p, r, CheckSlotAlignmentAt(r.start_time, r.end_time, rules["amen1"][1]))

NextRules ==
    \/ \E p \in Procs : CallResolveDuration(p)
    \/ \E p \in Procs : CallCheckAdvanceLimit(p)
    \/ \E p \in Procs : CallCheckSlotAlignment(p)

SpecRules == InitRules /\ [][NextRules]_vars

(* ------------------ _create_booking on finer instants ------------------ *)

\* RuleEngine.check_advance_limit, the instant given in half seconds
CheckAdvanceLimitAt(start_time, rule) ==
    LET now_utc == NowUtc * HalfSecondsPerMinute
        latest_allowed == now_utc + rule.advance_booking_limit_days * MinutesPerDay * HalfSecondsPerMinute
    IN  IF start_time < now_utc THEN R_Past
        ELSE IF start_time > latest_allowed THEN R_Advance
        ELSE NoReason

\* RuleEngine.check_operating_window, the instants given in half seconds
CheckOperatingWindowAt(start_time, end_time, rule) ==
    LET day == MinutesPerDay * HalfSecondsPerMinute
    IN  IF start_time % day < rule.operating_start_time * HalfSecondsPerMinute
           \/ end_time % day > rule.operating_end_time * HalfSecondsPerMinute
        THEN R_Hours ELSE NoReason

\* timedelta(minutes=rule.slot_length_minutes) in half seconds
SlotDeltaAt(rule) == [rule EXCEPT !.slot_length_minutes = @ * HalfSecondsPerMinute]

\* _create_booking of one worker for the Gym, on the current store: the rule
\* checks in the order of the code, the overlap query and the availability checks
CreateAt(bks, rule, r, offset) ==
    LET requested_start_local == r.start_local
        requested_start == requested_start_local - offset * HalfSecondsPerMinute
        dur == ResolveDuration(r.duration_minutes, rule)
        requested_end_local == requested_start_local + dur.duration * HalfSecondsPerMinute
        requested_end == requested_end_local - offset * HalfSecondsPerMinute
        advance_check == CheckAdvanceLimitAt(requested_start, rule)
        hours_check == CheckOperatingWindowAt(requested_start_local, requested_end_local, rule)
        slot_alignment_check == CheckSlotAlignmentAt(requested_start_local, requested_end_local, rule)
        overlaps == OverlapQuery(bks, "amen1", requested_start, requested_end)
    IN  [start |-> requested_start, end |-> requested_end,
         reason |-> IF dur.reason # NoReason THEN dur.reason
                    ELSE IF advance_check # NoReason THEN advance_check
                    ELSE IF hours_check # NoReason THEN hours_check
                    ELSE IF slot_alignment_check # NoReason THEN slot_alignment_check
                    ELSE RunAvailabilityChecks(bks, overlaps, SlotDeltaAt(rule), requested_start,
                                               requested_end, r.user_id)]

\* BOOK requests for the Gym around 06:00 of the queried day, on and off the second
InstantRequests ==
    [kind : {"BOOK"},
     start_local : {LocalAt(5, 59, 119), LocalAt(6, 0, 0), LocalAt(6, 0, 1), LocalAt(6, 15, 0),
                    LocalAt(6, 30, 0)},
     duration_minutes : {NoDur, 60}, user_id : {None, "u1"}]

\* the seed data with a week of advance booking; the instants of this store are
\* in half seconds
InitInstants ==
    /\ scope = "instants"
    /\ tzOffset = 0
    /\ rules = [a \in AmenityIds |->
                  IF a = "amen1"
                  THEN <<[AmenityRule(2) EXCEPT !.advance_booking_limit_days = 7]>>
                  ELSE <<>>]
    /\ amenities = [a \in AmenityIds |->
            CASE a = "amen1" -> [building_id |-> "b1", name |-> "Gym", is_active |-> TRUE]
              [] a = "amen2" -> [building_id |-> "b1", name |-> "Pool", is_active |-> TRUE]
              [] OTHER -> [building_id |-> "b1", name |-> "Sauna", is_active |-> FALSE]]
    /\ bookings = <<>>
    /\ amLock = [a \in AmenityIds |-> NoProc]
    /\ bkLocks = {}
    /\ proc = [p \in Procs |-> IdleProc]
    /\ nreq = 0
    /\ nfail = 0

\* _create_booking from the first statement to the commit, no other worker running
CreateBookingAt(p) ==
    /\ p \in ActiveProcs(scope)
    /\ proc[p].pc \in {"idle", "done"}
    /\ nreq < MaxRequests
    /\ \E r \in InstantRequests :
          LET c == CreateAt(bookings, rules["amen1"][1], r, TzOf("amen1"))
          IN  /\ bookings' = IF c.reason = NoReason
                             THEN Append(bookings, Booking("b1", "amen1", r.user_id, c.start,
                                                           c.end, nreq + 1))
                             ELSE bookings
              /\ proc' = [proc EXCEPT ![p] =
                    [IdleProc EXCEPT !.pc = "done", !.intent = r,
                        !.result = IF c.reason = NoReason
                                   THEN BookingResult(TRUE, NoReason, Len(bookings) + 1, TRUE)
                                   ELSE Reject(c.reason)]]
    /\ nreq' = nreq + 1
    /\ UNCHANGED <<scope, tzOffset, amenities, rules, amLock, bkLocks, nfail>>

NextInstants == \E p \in Procs : CreateBookingAt(p)

SpecInstants == InitInstants /\ [][NextInstants]_vars

(* ------------------------------ claims -------------------------------- *)

Done(p) == proc[p].pc = "done"

IsBook(p) == proc[p].intent.kind \in BookKinds
IsCancelById(p) == proc[p].intent.kind \in CancelKinds /\ proc[p].intent.booking_id # NoId

\* every slot covered by a stored booking of the amenity, on the rule's slot length
CoveredSlots(a) ==
    UNION {LET slots == SplitIntoSlots(bookings[b].start_time, bookings[b].end_time,
                                       rules[a][1].slot_length_minutes)
           IN  {slots[k] : k \in DOMAIN slots} :
           b \in {x \in DOMAIN bookings : bookings[x].amenity_id = a}}

\* C1: in every reachable state, for every amenity with a rule and every slot,
\* the number of BOOKED bookings overlapping the slot is at most max_capacity.
C1_CapacityInvariant ==
    \A a \in AmenityIds :
        rules[a] # <<>> =>
            \A slot \in CoveredSlots(a) :
                Cardinality(OverlapQuery(bookings, a, slot[1], slot[2]))
                    <= rules[a][1].max_capacity

\* a slot is filled to max_capacity = 2 by two committed creates
C1_Witness ==
    /\ rules["amen1"][1].max_capacity = 2
    /\ \E slot \in CoveredSlots("amen1") :
          Cardinality(OverlapQuery(bookings, "amen1", slot[1], slot[2])) = 2
    /\ \E p \in Procs : Done(p) /\ IsBook(p) /\ proc[p].result.reason = R_NoCapacity

InCreateTxn(p) == proc[p].pc \in {"create_rules", "create_avail", "create_commit"}

\* C2: with max_capacity 1, no prior booking and no persistence failure, two creates by
\* different users for the same amenity and slot never run their checks at the same
\* time, exactly one succeeds and the other is rejected for lack of capacity.
C2_SerializedCreate ==
    /\ \A p, q \in Procs :
          (p # q /\ InCreateTxn(p) /\ InCreateTxn(q)) => proc[p].amenity # proc[q].amenity
    /\ ( /\ rules["amen1"][1].max_capacity = 1
         /\ nreq = 2 /\ nfail = 0
         /\ \A p \in Procs : Done(p) /\ IsBook(p)
         /\ \A p, q \in Procs :
               /\ proc[p].intent.time = proc[q].intent.time
               /\ proc[p].intent.duration_minutes = proc[q].intent.duration_minutes
               /\ (p # q => proc[p].intent.user_id # proc[q].intent.user_id) )
       => \E p, q \in Procs :
             /\ p # q
             /\ proc[p].result.success
             /\ ~proc[q].result.success /\ proc[q].result.reason = R_NoCapacity
             /\ Len(bookings) = 1

\* both requests of the race have returned, one booked and one without capacity
C2_Witness ==
    /\ rules["amen1"][1].max_capacity = 1
    /\ nreq = 2 /\ nfail = 0
    /\ \A p \in Procs : Done(p) /\ IsBook(p) /\ proc[p].intent.time = 360
                        /\ proc[p].intent.duration_minutes = NoDur
    /\ proc["p1"].intent.user_id # proc["p2"].intent.user_id
    /\ proc["p2"].result.success /\ proc["p1"].result.reason = R_NoCapacity

\* C3: a transaction that has inserted a booking or changed a booking's status holds
\* the row lock of that booking's amenity.
C3_WritesHoldAmenityLock ==
    \A p \in Procs :
        /\ proc[p].ins => amLock[proc[p].amenity] = p
        /\ proc[p].upd # NoId => amLock[bookings[proc[p].upd].amenity_id] = p

\* C4: bookings are created BOOKED, the only change of a booking is
\* BOOKED -> CANCELLED, and no booking record is ever removed.
C4_Lifecycle ==
    [][ /\ Len(bookings') >= Len(bookings)
        /\ \A b \in DOMAIN bookings :
              \/ bookings'[b] = bookings[b]
              \/ /\ bookings[b].status = BOOKED
                 /\ bookings'[b] = [bookings[b] EXCEPT !.status = CANCELLED]
        /\ \A b \in DOMAIN bookings' :
              b \notin DOMAIN bookings => bookings'[b].status = BOOKED ]_vars

\* a booking was cancelled and its record is kept, CANCELLED
C4_Witness ==
    \E p \in Procs :
        /\ Done(p) /\ IsCancelById(p) /\ proc[p].result.success
        /\ bookings[proc[p].intent.booking_id].status = CANCELLED

\* C5: a cancel by booking id issued after the booking's cancellation was committed,
\* by a caller that passes the ownership test and without store failure, returns
\* success=false with the already-cancelled reason, raises nothing, and the booking
\* stays CANCELLED.
C5_IdempotentCancel ==
    \A p \in Procs :
        /\ (proc[p].pc = "raised" => proc[p].intent.kind \notin CancelKinds)
        /\ ( /\ Done(p) /\ IsCancelById(p) /\ proc[p].began_cancelled
             /\ proc[p].result.reason # R_DbCancel
             /\ proc[p].intent.user_id \in {None, bookings[proc[p].intent.booking_id].user_id} )
           => /\ ~proc[p].result.success
              /\ proc[p].result.reason = R_AlreadyCancelled
              /\ bookings[proc[p].intent.booking_id].status = CANCELLED

\* the second cancel of a booking has returned the already-cancelled rejection
C5_Witness ==
    \E p \in Procs :
        /\ Done(p) /\ IsCancelById(p) /\ proc[p].began_cancelled
        /\ proc[p].result.reason = R_AlreadyCancelled
        /\ proc[p].intent.user_id = bookings[proc[p].intent.booking_id].user_id

\* C6: of two cancel requests for the same booking id at most one returns success.
C6_CancelledOnce ==
    \A p, q \in Procs :
        (p # q /\ Done(p) /\ Done(q) /\ IsCancelById(p) /\ IsCancelById(q)
          /\ proc[p].intent.booking_id = proc[q].intent.booking_id)
        => ~(proc[p].result.success /\ proc[q].result.success)

\* C7: the booking records change only in the step in which a request returns
\* success: a request that returns a rejection has changed nothing.
C7_NoPartialCommit ==
    [][ bookings' # bookings =>
          \E p \in Procs : /\ proc'[p] # proc[p]
                           /\ proc'[p].pc = "done"
                           /\ proc'[p].result.success ]_vars

\* a create was rejected by the availability check while bookings exist
C7_Witness ==
    \E p \in Procs :
        /\ Done(p) /\ IsBook(p)
        /\ proc[p].result.reason \in {R_NoCapacity, R_UserOverlap}
        /\ Len(bookings) >= 1

\* C8: a store failure in a create or cancel transaction, at any step including the
\* commit, ends the request with that operation's generic database-error rejection,
\* releases its locks and leaves every booking record as it was.
C8_FailureRolledBack ==
    [][ \A p \in Procs :
          (nfail' = nfail + 1 /\ proc'[p] # proc[p] /\ proc[p].pc \in InCreate \cup InCancel)
          => /\ bookings' = bookings
             /\ proc'[p].pc = "done"
             /\ proc'[p].result = Reject(IF proc[p].pc \in InCreate THEN R_DbCreate ELSE R_DbCancel)
             /\ \A a \in AmenityIds : amLock'[a] # p
             /\ \A l \in bkLocks' : l[1] # p ]_vars

\* a cancel by id of a BOOKED booking by its owner ended in the database error
\* and the booking is still BOOKED
C8_Witness ==
    \E p \in Procs :
        /\ Done(p) /\ IsCancelById(p)
        /\ proc[p].result.reason = R_DbCancel
        /\ proc[p].intent.booking_id \in DOMAIN bookings
        /\ bookings[proc[p].intent.booking_id].status = BOOKED
        /\ proc[p].intent.user_id = bookings[proc[p].intent.booking_id].user_id

\* C9: no error escapes execute: every call ends with a result value.
C9_AlwaysResult == \A p \in Procs : proc[p].pc # "raised"

\* the reason the ordered rule checks of a request prescribe, each check evaluated
\* on its own: the first failing one of duration, advance limit, window, alignment
FirstViolated(i, rule, tz) ==
    LET start_local == Combine(i.date, i.time)
        dur == ResolveDuration(i.duration_minutes, rule)
        end_local == ComputeEndTime(start_local, dur.duration)
        seq == << dur.reason,
                  CheckAdvanceLimit(ToUtc(start_local, tz), rule),
                  CheckOperatingWindow(start_local, end_local, rule),
                  CheckSlotAlignment(start_local, end_local, rule) >>
        failing == {k \in 1..4 : seq[k] # NoReason}
    IN  IF failing = {} THEN NoReason
        ELSE seq[CHOOSE k \in failing : \A j \in failing : k <= j]

\* C10: a create or availability request that reached the rule checks returns the
\* reason of the earliest violated check in the order duration, advance limit,
\* operating window, slot alignment, and a capacity/overlap reason only when all
\* four pass.
C10_FirstViolatedRule ==
    \A p \in Procs :
        ( /\ Done(p)
          /\ proc[p].intent.kind \in BookKinds \cup CheckKinds
          /\ ValidIntent(proc[p].intent)
          /\ ResolveRows(proc[p].intent.amenity, proc[p].intent.building_id) = {"amen1"}
          /\ proc[p].result.reason # R_DbCreate )
        => LET first == FirstViolated(proc[p].intent, rules["amen1"][1], TzOf("amen1"))
           IN  IF first # NoReason
               THEN proc[p].result.reason = first /\ ~proc[p].result.success
               ELSE proc[p].result.reason \in {NoReason, R_UserOverlap, R_NoCapacity}

\* a request violating duration, advance limit, window and alignment at once was
\* answered with the duration reason
C10_Witness ==
    \E p \in Procs :
        /\ Done(p) /\ IsBook(p)
        /\ proc[p].intent.duration_minutes = 90 /\ proc[p].intent.date = 1
        /\ proc[p].intent.time = 345
        /\ proc[p].result.reason = R_ExceedsMax

IsCheck(p) == proc[p].intent.kind \in CheckKinds

\* C15: no step of an availability check, a failing one included, changes a booking,
\* amenity or rule record.
C15_CheckWritesNothing ==
    [][ \A p \in Procs :
          (proc[p].pc \in InCheck /\ proc'[p] # proc[p])
          => /\ bookings' = bookings
             /\ amenities' = amenities
             /\ rules' = rules ]_vars

\* an availability check answered available=true while bookings are stored
C15_Witness ==
    \E p \in Procs :
        /\ Done(p) /\ IsCheck(p) /\ proc[p].result.available
        /\ Len(bookings) >= 1

\* C16: an availability check holds no amenity row lock and no booking row lock.
C16_CheckTakesNoLock ==
    \A p \in Procs :
        proc[p].pc \in InCheck
        => /\ \A a \in AmenityIds : amLock[a] # p
           /\ \A l \in bkLocks : l[1] # p

\* C19: a create acquires the amenity row lock only when no other create transaction
\* on that amenity is open, keeps it until it returns, and reads the overlapping
\* bookings while it alone holds it: every create that locked earlier has committed
\* or rejected before, so the last place goes to the first to lock.
C19_LockOrderIsCommitOrder ==
    [][ \A p \in Procs :
          /\ (proc[p].pc = "create_resolve" /\ proc'[p].pc = "create_rules")
             => \A q \in Procs \ {p} :
                  ~(InCreateTxn(q) /\ proc[q].amenity = proc'[p].amenity)
          /\ (proc[p].pc = "create_avail" /\ proc'[p] # proc[p])
             => /\ amLock[proc[p].amenity] = p
                /\ \A q \in Procs \ {p} :
                      ~(InCreateTxn(q) /\ proc[q].amenity = proc[p].amenity)
          /\ InCreateTxn(p)' => amLock'[proc'[p].amenity] = p ]_vars

\* with one place, one create holds the lock with its booking flushed while the
\* other create of the same slot still waits for the amenity row
C19_Witness ==
    /\ rules["amen1"][1].max_capacity = 1
    /\ \E p, q \in Procs :
          /\ proc[p].pc = "create_commit" /\ proc[p].amenity = "amen1"
          /\ proc[q].pc = "create_resolve"
          /\ ResolveRows(proc[q].intent.amenity, proc[q].intent.building_id) = {"amen1"}
          /\ proc[q].intent.time = proc[p].intent.time

C17_CheckAgreesWithCreate ==
    [][ \A p \in Procs :
          LET i == proc[p].intent
              a == proc[p].amenity
              r == proc'[p].result
          IN  /\ (proc[p].pc = "check_resolve" /\ proc'[p].pc = "done")
                 => /\ ~r.available
                    /\ r.reason = R_AmenityNotFoundOrInactive
                    /\ ResolveRows(i.amenity, i.building_id) = {}
              /\ (proc[p].pc \in {"check_rules", "check_avail"} /\ proc'[p].pc = "done")
                 => /\ r.available = CreateDecision(i, a).success
                    /\ r.success = r.available
                    /\ r.reason = CreateDecision(i, a).reason
              /\ (proc[p].pc = "create_resolve" /\ proc'[p].pc = "done" /\ nfail' = nfail)
                 => /\ ~r.success
                    /\ r.reason = R_AmenityNotFoundOrInactive
                    /\ ResolveRows(i.amenity, i.building_id) = {}
              /\ (proc[p].pc \in {"create_rules", "create_avail"} /\ proc'[p].pc = "done"
                    /\ nfail' = nfail)
                 => /\ ~r.success
                    /\ ~CreateDecision(i, a).success
                    /\ r.reason = CreateDecision(i, a).reason
              /\ (proc[p].pc = "create_avail" /\ proc'[p].pc = "create_commit")
                 => CreateDecision(i, a).success ]_vars

\* a check of a full slot answered no capacity, as a create of the same fields would
C17_Witness ==
    \E p \in Procs :
        /\ Done(p) /\ IsCheck(p)
        /\ proc[p].result.reason = R_NoCapacity /\ ~proc[p].result.available
        /\ CreateDecision(proc[p].intent, "amen1").reason = R_NoCapacity

\* C18: a create or cancel that resolves to exactly one amenity waits for that
\* amenity's row lock only while a transaction operating on that amenity holds it.
C18_NoCrossAmenityWait ==
    \A p, q \in Procs : \A a \in AmenityIds :
        ( /\ p # q
          /\ proc[p].pc \in {"create_resolve", "cancel_resolve"}
          /\ ResolveRows(proc[p].intent.amenity, proc[p].intent.building_id) = {a}
          /\ amLock[a] = q )
        => proc[q].amenity = a

IsUpdateRules(p) == proc[p].intent.kind = "UPDATE_RULES"

\* C11: an update of the rules that returns one of the three cross-field rejections
\* leaves every stored rule as it was.
C11_RejectedUpdatePersistsNothing ==
    [][ \A p \in Procs :
          ( /\ proc[p].pc = "update_apply" /\ proc'[p].pc = "done"
            /\ proc'[p].result.reason \in RuleInvariantReasons )
          => rules' = rules ]_vars

\* C12: every stored rule has max_duration_minutes >= slot_length_minutes,
\* max_duration_minutes a multiple of slot_length_minutes, and
\* operating_start_time < operating_end_time.
C12_StoredRuleInvariant ==
    \A a \in AmenityIds :
        rules[a] # <<>> =>
            /\ rules[a][1].max_duration_minutes >= rules[a][1].slot_length_minutes
            /\ rules[a][1].max_duration_minutes % rules[a][1].slot_length_minutes = 0
            /\ rules[a][1].operating_start_time < rules[a][1].operating_end_time

\* C13: an update that returns success on an amenity that has a rule stores, for each
\* rule field, the request's value when the request has the field and the previous
\* value otherwise, and changes the rule of no other amenity.
C13_PartialUpdate ==
    [][ \A p \in Procs :
          LET r == proc[p].intent
              a == proc[p].amenity
          IN  ( /\ proc[p].pc = "update_apply" /\ proc'[p].pc = "done"
                /\ proc'[p].result.success
                /\ rules[a] # <<>> )
              => /\ rules'[a] # <<>>
                 /\ \A f \in RuleFields \ {"allow_overlap"} :
                       rules'[a][1][f] = IF r[f] # Unset THEN r[f] ELSE rules[a][1][f]
                 /\ rules'[a][1].allow_overlap =
                       IF r.allow_overlap # <<>> THEN r.allow_overlap[1]
                       ELSE rules[a][1].allow_overlap
                 /\ \A b \in AmenityIds \ {a} : rules'[b] = rules[b] ]_vars

\* an accepted update of max_duration_minutes and slot_length_minutes alone left
\* the configured capacity, advance limit (not the column default) and window
C13_Witness ==
    \E p \in Procs :
        /\ Done(p) /\ IsUpdateRules(p) /\ proc[p].result.success
        /\ proc[p].intent.amenity_id = "amen1"
        /\ proc[p].intent.max_duration_minutes = 90
        /\ proc[p].intent.slot_length_minutes = 45
        /\ proc[p].intent.operating_start_time = Unset
        /\ proc[p].intent.operating_end_time = Unset
        /\ rules["amen1"][1] = [AmenityRule(1) EXCEPT !.max_duration_minutes = 90,
                                                      !.slot_length_minutes = 45]

\* C14: an update on an amenity without a rule, whose request fields completed by
\* the column defaults satisfy the cross-field tests, returns success and stores
\* exactly that rule, without store failure.
C14_NewRuleTakesDefaults ==
    [][ \A p \in Procs :
          LET r == proc[p].intent
              a == proc[p].amenity
              expected == Flushed(MergeRule(PendingRule, r))
          IN  ( /\ proc[p].pc = "update_apply" /\ proc'[p] # proc[p]
                /\ nfail' = nfail
                /\ proc[p].rule = <<>> /\ rules[a] = <<>>
                /\ RuleInvariantCheck(expected) = NoReason )
              => /\ proc'[p].pc = "done"
                 /\ proc'[p].result.success
                 /\ rules'[a] = <<expected>> ]_vars

IsCancelBySlot(p) == proc[p].intent.kind \in CancelKinds /\ proc[p].intent.booking_id = NoId

OwnOverlap(p) ==
    \E b \in DOMAIN bookings :
        /\ bookings[b].amenity_id = proc[p].amenity
        /\ bookings[b].status = BOOKED
        /\ bookings[b].user_id = proc[p].intent.user_id
        /\ bookings[b].start_time < proc[p].end
        /\ bookings[b].end_time > proc[p].start

ShapeError(i) ==
    \/ i.kind \notin BookKinds \cup CancelKinds \cup CheckKinds
    \/ /\ i.kind \in BookKinds \cup CheckKinds \/ (i.kind \in CancelKinds /\ i.booking_id = NoId)
       /\ (i.amenity = None \/ i.date = NoDate \/ i.time = NoTime)

\* C23: a request with a shape error ends in the step that receives it, with
\* success=false and the invalid-payload reason; that step opens no transaction,
\* takes no lock and leaves every record as it was.
C23_ShapeErrorBeforeStore ==
    [][ \A p \in Procs :
          ( /\ proc[p].pc \in {"idle", "done", "raised"}
            /\ proc'[p] # proc[p]
            /\ ShapeError(proc'[p].intent) )
          => /\ proc'[p].pc = "done"
             /\ ~proc'[p].result.success
             /\ proc'[p].result.reason = R_Invalid
             /\ UNCHANGED <<bookings, amenities, rules, amLock, bkLocks>> ]_vars

\* with a booking stored, a BOOK intent without date was answered invalid
C23_Witness ==
    \E p \in Procs :
        /\ Done(p) /\ IsBook(p) /\ proc[p].intent.date = NoDate
        /\ proc[p].result.reason = R_Invalid
        /\ Len(bookings) >= 1

\* the BOOK intent of the end-to-end scenario: no duration, 10:00
IsScenarioBook(p) ==
    /\ IsBook(p)
    /\ proc[p].intent.amenity = "Gym" /\ proc[p].intent.building_id = "b1"
    /\ proc[p].intent.date = ScenarioDay /\ proc[p].intent.time = 600
    /\ proc[p].intent.duration_minutes = NoDur

\* C24 as stated: on the seed data without bookings and without store failure, the
\* scenario's BOOK returns success and stores one BOOKED booking from 10:00 UTC to
\* 11:00 UTC of that day.
C24_ScenarioEndsAt1100 ==
    [][ \A p \in Procs :
          ( /\ IsScenarioBook(p) /\ proc[p].pc \in InCreate /\ proc'[p].pc = "done"
            /\ bookings = <<>> /\ nfail' = nfail )
          => /\ proc'[p].result.success
             /\ Len(bookings') = 1
             /\ bookings'[1].status = BOOKED
             /\ bookings'[1].start_time = ScenarioDay * MinutesPerDay + 600
             /\ bookings'[1].end_time = ScenarioDay * MinutesPerDay + 660 ]_vars

\* C24 amended: on the seed data without bookings and without store failure, the
\* scenario's BOOK returns success and stores one BOOKED booking of the Gym from
\* 10:00 UTC to 10:30 UTC of that day: an absent duration is one slot length.
C24_ScenarioEndsAt1030 ==
    [][ \A p \in Procs :
          ( /\ IsScenarioBook(p) /\ proc[p].pc \in InCreate /\ proc'[p].pc = "done"
            /\ bookings = <<>> /\ nfail' = nfail )
          => /\ proc'[p].result.success
             /\ Len(bookings') = 1
             /\ bookings'[1].status = BOOKED
             /\ bookings'[1].amenity_id = "amen1"
             /\ bookings'[1].start_time = ScenarioDay * MinutesPerDay + 600
             /\ bookings'[1].end_time = ScenarioDay * MinutesPerDay + 630 ]_vars

\* the scenario's BOOK has returned success as the first request
C24_Witness ==
    \E p \in Procs :
        /\ Done(p) /\ IsScenarioBook(p) /\ proc[p].result.success
        /\ nreq = 1 /\ Len(bookings) = 1

IsUpsert(p) == proc[p].intent.kind = "UPSERT_AMENITY"

\* C25: an upsert whose building does not exist, or whose amenity id exists under
\* another building, returns a rejection and leaves the amenities table as it was:
\* no amenity is created, moved, renamed, resized or (de)activated.
C25_UpsertRejections ==
    [][ \A p \in Procs :
          LET r == proc[p].intent
              no_building == r.building_id \notin Buildings
              other_building == /\ r.amenity_id # None /\ r.amenity_id \in DOMAIN amenities
                                /\ amenities[r.amenity_id].building_id # r.building_id
          IN  ( /\ proc[p].pc = "upsert_apply" /\ proc'[p] # proc[p]
                /\ (no_building \/ other_building) )
              => /\ proc'[p].pc = "done"
                 /\ ~proc'[p].result.success
                 /\ proc'[p].result.reason # NoReason
                 /\ (nfail' = nfail =>
                        proc'[p].result.reason =
                            IF no_building THEN R_BuildingNotFound ELSE R_OtherBuilding)
                 /\ amenities' = amenities ]_vars

\* an upsert naming the Gym of b1 under building b2 was rejected and the Gym is
\* as it was
C25_Witness ==
    \E p \in Procs :
        /\ Done(p) /\ IsUpsert(p)
        /\ proc[p].intent.amenity_id = "amen1" /\ proc[p].intent.building_id = "b2"
        /\ proc[p].intent.name = "Spa"
        /\ proc[p].result.reason = R_OtherBuilding
        /\ amenities["amen1"] = AmenityRow("b1", "Gym", 1, TRUE)

\* C26: at most one rule record exists per amenity, and no call of the rule update
\* ends by raising: each returns success or a rejection.
C26_OneRulePerAmenity ==
    /\ \A a \in AmenityIds : Len(rules[a]) <= 1
    /\ \A p \in Procs : IsUpdateRules(p) => proc[p].pc # "raised"

IsSplit(p) == Done(p) /\ proc[p].intent.kind = "SPLIT_INTO_SLOTS"

\* C30: split_into_slots with slot_length_minutes >= 1 returns a finite
\* sequence of consecutive slots, each exactly slot_length_minutes wide, the
\* first beginning at start, each next one beginning where the previous ends,
\* every slot beginning strictly before end, together covering [start, end);
\* it returns no slot when start >= end.
C30_SplitIntoSlots ==
    \A p \in Procs : IsSplit(p) =>
        LET r == proc[p].intent
            slots == proc[p].result
        IN  /\ r.start_time >= r.end_time => slots = <<>>
            /\ r.start_time < r.end_time =>
                  /\ Len(slots) >= 1
                  /\ slots[1][1] = r.start_time
                  /\ \A k \in DOMAIN slots :
                        /\ slots[k][2] = slots[k][1] + r.slot_length_minutes
                        /\ slots[k][1] < r.end_time
                  /\ \A k \in 2..Len(slots) : slots[k][1] = slots[k - 1][2]
                  /\ slots[Len(slots)][2] >= r.end_time

\* several slots were returned, the last one reaching past end
C30_Witness ==
    \E p \in Procs :
        /\ IsSplit(p)
        /\ Len(proc[p].result) >= 2
        /\ proc[p].result[Len(proc[p].result)][2] > proc[p].intent.end_time

IsSlotsTest(p) == Done(p) /\ proc[p].intent.kind = "SLOTS_WITHIN_CAPACITY"

\* the starts of the slots of [s, e) on a grid of m minutes from s
SlotStarts(s, e, m) == {x \in s..(e - 1) : (x - s) % m = 0}

\* the given bookings that overlap [s, e), half-open
Overlapping(given, s, e) ==
    {b \in given : bookings[b].start_time < e /\ bookings[b].end_time > s}

\* the bookings handed to the capacity test of request r
Given(r) == OverlapQuery(bookings, r.amenity_id, RequestStart(r), RequestEnd(r))

\* C28: slots_within_capacity returns true exactly when every slot of the
\* requested interval is overlapped (existing.start < slotEnd and
\* existing.end > slotStart) by fewer than max_capacity of the given bookings.
C28_PerSlotCount ==
    \A p \in Procs : IsSlotsTest(p) =>
        LET r == proc[p].intent
        IN  proc[p].result =
                \A x \in SlotStarts(RequestStart(r), RequestEnd(r), r.slot_length_minutes) :
                    Cardinality(Overlapping(Given(r), x, x + r.slot_length_minutes))
                        < r.max_capacity

\* a request over several slots is accepted although max_capacity or more
\* bookings overlap the whole interval
C28_Witness ==
    \E p \in Procs :
        /\ IsSlotsTest(p)
        /\ proc[p].result
        /\ proc[p].intent.minutes >= 2 * proc[p].intent.slot_length_minutes
        /\ Cardinality(Given(proc[p].intent)) >= proc[p].intent.max_capacity

\* the whole-interval test on the request of a per-slot test
WholeIntervalAccepts(r) ==
    CapacityAvailable(bookings, r.amenity_id, RequestStart(r), RequestEnd(r), r.max_capacity)

\* C29 as stated: every request slots_within_capacity accepts is also accepted
\* by the whole-interval test overlap_count(start, end) < max_capacity.
C29_PerSlotStricter ==
    \A p \in Procs : IsSlotsTest(p) =>
        (proc[p].result => WholeIntervalAccepts(proc[p].intent))

\* C29 amended: the whole-interval test is the stricter one; every request it
\* accepts is also accepted by slots_within_capacity on the bookings
\* overlapping the interval.
C29_WholeIntervalStricter ==
    \A p \in Procs : IsSlotsTest(p) =>
        (WholeIntervalAccepts(proc[p].intent) => proc[p].result)

\* the whole-interval test rejects a request that the per-slot test accepts
C29_Witness ==
    \E p \in Procs :
        /\ Done(p)
        /\ proc[p].intent.kind = "CAPACITY_AVAILABLE"
        /\ ~proc[p].result
        /\ SlotsWithinCapacity(bookings, Given(proc[p].intent),
                               RequestStart(proc[p].intent), RequestEnd(proc[p].intent),
                               proc[p].intent.slot_length_minutes,
                               proc[p].intent.max_capacity)

IsListing(p) == Done(p) /\ proc[p].intent.kind = "LISTING"

\* BOOKED bookings of amenity a that overlap the local-time slot [x, x + m) of
\* the queried day
BookedInSlot(a, x, m) ==
    {b \in DOMAIN bookings :
        /\ bookings[b].amenity_id = a
        /\ bookings[b].status = BOOKED
        /\ bookings[b].start_time < Combine(QueryDay, x + m) - tzOffset
        /\ bookings[b].end_time > Combine(QueryDay, x) - tzOffset}

\* C27: the listing reports, for each slot of the operating window,
\* remaining = max(max_capacity - overlap_count, 0) with overlap_count the
\* number of BOOKED bookings overlapping the slot, and lists exactly the slots
\* whose remaining is greater than zero, in order.
C27_ListingRemaining ==
    \A p \in Procs : IsListing(p) /\ proc[p].result.status_code = 200 =>
        LET rule == rules[proc[p].intent.amenity_id][1]
            m == rule.slot_length_minutes
            cap == rule.max_capacity
            listed == proc[p].result.slots
            starts == SlotStarts(rule.operating_start_time, rule.operating_end_time, m)
            count(x) == Cardinality(BookedInSlot(proc[p].intent.amenity_id, x, m))
        IN  /\ \A k \in DOMAIN listed :
                  /\ listed[k].slot_start \in starts
                  /\ listed[k].slot_end = listed[k].slot_start + m
                  /\ listed[k].max_capacity = cap
                  /\ listed[k].remaining_capacity = cap - count(listed[k].slot_start)
                  /\ listed[k].remaining_capacity > 0
            /\ \A k \in 2..Len(listed) : listed[k - 1].slot_start < listed[k].slot_start
            /\ \A x \in starts :
                  (cap - count(x) > 0) <=> (\E k \in DOMAIN listed : listed[k].slot_start = x)

\* a listing that omits a slot with more bookings than max_capacity and
\* reports another slot with part of its capacity left
C27_Witness ==
    \E p \in Procs :
        /\ IsListing(p)
        /\ proc[p].result.status_code = 200
        /\ LET rule == rules[proc[p].intent.amenity_id][1]
               a == proc[p].intent.amenity_id
           IN  /\ \E x \in SlotStarts(rule.operating_start_time, rule.operating_end_time,
                                      rule.slot_length_minutes) :
                      Cardinality(BookedInSlot(a, x, rule.slot_length_minutes))
                          > rule.max_capacity
               /\ Len(proc[p].result.slots) >= 1

IsDurationCall(p) == Done(p) /\ proc[p].intent.kind = "RESOLVE_DURATION"

\* C31: resolve_duration_minutes uses slot_length_minutes when no duration is
\* requested; it accepts a duration d exactly when d <= max_duration_minutes
\* and d is a multiple of slot_length_minutes; a d above max_duration_minutes
\* gets the exceeds-max reason even when it is no multiple of the slot length.
C31_DurationBounds ==
    \A p \in Procs : IsDurationCall(p) =>
        LET rule == rules["amen1"][1]
            requested == proc[p].intent.requested
            d == proc[p].result.duration
            multiple == \E k \in 0..d : k * rule.slot_length_minutes = d
        IN  /\ requested = NoDur => d = rule.slot_length_minutes
            /\ requested # NoDur => d = requested
            /\ (proc[p].result.reason = NoReason) <=> (d <= rule.max_duration_minutes /\ multiple)
            /\ d > rule.max_duration_minutes => proc[p].result.reason = R_ExceedsMax
            /\ (d <= rule.max_duration_minutes /\ ~multiple) => proc[p].result.reason = R_NotMultiple

\* under max 60 and slot 30, a duration of 75 is refused as exceeding the maximum
C31_Witness ==
    \E p \in Procs :
        /\ IsDurationCall(p)
        /\ rules["amen1"][1].max_duration_minutes = 60
        /\ rules["amen1"][1].slot_length_minutes = 30
        /\ proc[p].intent.requested = 75
        /\ proc[p].result.reason = R_ExceedsMax

IsAdvanceCall(p) == Done(p) /\ proc[p].intent.kind = "CHECK_ADVANCE_LIMIT"

\* C32: check_advance_limit answers in-the-past exactly when start < now,
\* otherwise exceeds-advance-window exactly when
\* start > now + advance_booking_limit_days, and accepts otherwise.
C32_AdvanceWindow ==
    \A p \in Procs : IsAdvanceCall(p) =>
        LET start == proc[p].intent.start_time
            latest == NowUtc + rules["amen1"][1].advance_booking_limit_days * MinutesPerDay
        IN  /\ (proc[p].result = R_Past) <=> (start < NowUtc)
            /\ (proc[p].result = R_Advance) <=> (start >= NowUtc /\ start > latest)
            /\ (proc[p].result = NoReason) <=> (start >= NowUtc /\ start <= latest)

\* with a limit of seven days a start eight days out is refused
C32_Witness ==
    \E p \in Procs :
        /\ IsAdvanceCall(p)
        /\ rules["amen1"][1].advance_booking_limit_days = 7
        /\ proc[p].intent.start_time = NowUtc + 8 * MinutesPerDay
        /\ proc[p].result = R_Advance

IsAlignmentCall(p) == Done(p) /\ proc[p].intent.kind = "CHECK_SLOT_ALIGNMENT"

\* C33: with offsets measured from operating_start_time on the request's local
\* date, check_slot_alignment accepts exactly when the start offset is >= 0,
\* the end offset is > 0 and both offsets are exact multiples of
\* slot_length_minutes.
C33_SlotAlignment ==
    \A p \in Procs : IsAlignmentCall(p) =>
        LET rule == rules["amen1"][1]
            anchor == LocalAt(0, rule.operating_start_time, 0)
            slot == rule.slot_length_minutes * HalfSecondsPerMinute
            start_offset == proc[p].intent.start_time - anchor
            end_offset == proc[p].intent.end_time - anchor
        IN  (proc[p].result = NoReason) <=>
                /\ start_offset >= 0
                /\ end_offset > 0
                /\ start_offset % slot = 0
                /\ end_offset % slot = 0

\* two stored bookings overlap in time, half-open
Overlap(x, y) ==
    bookings[x].start_time < bookings[y].end_time /\ bookings[y].start_time < bookings[x].end_time

\* C34: in every reachable state no two BOOKED bookings of the same amenity
\* with the same non-null user id overlap in time.
C34_NoSameUserOverlap ==
    \A x, y \in DOMAIN bookings :
        ( /\ x # y
          /\ bookings[x].status = BOOKED /\ bookings[y].status = BOOKED
          /\ bookings[x].amenity_id = bookings[y].amenity_id
          /\ bookings[x].user_id # None
          /\ bookings[x].user_id = bookings[y].user_id )
        => ~Overlap(x, y)

\* BOOKED bookings of amenity a
Booked(a) ==
    {b \in DOMAIN bookings : bookings[b].amenity_id = a /\ bookings[b].status = BOOKED}

\* C35: after any sequence of create, cancel and update_amenity_rules, the
\* number of BOOKED bookings of an amenity overlapping any one slot, on the
\* slot length now stored, never exceeds the max_capacity now stored.
C35_CapacityUnderStoredRule ==
    \A a \in AmenityIds : \A b \in Booked(a) :
        rules[a] # <<>> =>
            LET slots == SplitIntoSlots(bookings[b].start_time, bookings[b].end_time,
                                        rules[a][1].slot_length_minutes)
            IN  \A k \in DOMAIN slots :
                    Cardinality({x \in Booked(a) :
                        /\ bookings[x].start_time < slots[k][2]
                        /\ bookings[x].end_time > slots[k][1]})
                        <= rules[a][1].max_capacity

\* C36: every stored booking lies inside the operating window of its local
\* date: its local start is at or after operating_start_time and its local end
\* is at or before operating_end_time of the day of its start.
C36_InsideOperatingWindow ==
    \A b \in DOMAIN bookings :
        LET a == bookings[b].amenity_id
            rule == rules[a][1]
            start_local == bookings[b].start_time + TzOf(a)
            end_local == bookings[b].end_time + TzOf(a)
            midnight == DateOf(start_local) * MinutesPerDay
        IN  /\ start_local >= midnight + rule.operating_start_time
            /\ end_local <= midnight + rule.operating_end_time

\* C37: every stored booking has start < end, a duration that is a positive
\* multiple of slot_length_minutes and at most max_duration_minutes, and a
\* start on the slot grid anchored at operating_start_time of its local date.
C37_StoredBookingShape ==
    \A b \in DOMAIN bookings :
        LET rule == rules[bookings[b].amenity_id][1]
            slot == rule.slot_length_minutes * HalfSecondsPerMinute
            day == MinutesPerDay * HalfSecondsPerMinute
            start_local == bookings[b].start_time + TzOf(bookings[b].amenity_id) * HalfSecondsPerMinute
            anchor == (start_local \div day) * day + rule.operating_start_time * HalfSecondsPerMinute
            length == bookings[b].end_time - bookings[b].start_time
        IN  /\ length > 0
            /\ length % slot = 0
            /\ length <= rule.max_duration_minutes * HalfSecondsPerMinute
            /\ start_local >= anchor
            /\ (start_local - anchor) % slot = 0

\* BOOKED bookings of the amenity of p's create that overlap [s, e)
LiveIn(p, s, e) ==
    {b \in Booked(proc[p].amenity) : bookings[b].start_time < e /\ bookings[b].end_time > s}

\* C38: a CANCELLED booking counts neither towards capacity nor towards the
\* same-user overlap test: a create that reaches the availability test is
\* accepted exactly when, among the BOOKED bookings alone, the user owns none
\* overlapping the interval and every slot of the interval has a place left.
C38_CancelledDoesNotCount ==
    [][ \A p \in Procs :
          ( /\ proc[p].pc = "create_avail" /\ proc'[p] # proc[p] /\ nfail' = nfail )
          => LET m == proc[p].rule[1].slot_length_minutes
                 own == /\ Truthy(proc[p].intent.user_id)
                        /\ \E b \in LiveIn(p, proc[p].start, proc[p].end) :
                              bookings[b].user_id = proc[p].intent.user_id
                 room == \A x \in SlotStarts(proc[p].start, proc[p].end, m) :
                            Cardinality(LiveIn(p, x, x + m)) < proc[p].rule[1].max_capacity
             IN  IF ~own /\ room
                 THEN proc'[p].pc = "create_commit"
                 ELSE proc'[p].pc = "done" /\ ~proc'[p].result.success ]_vars

\* with max_capacity 1, a user's create succeeded for an interval in which a
\* CANCELLED booking of the same user lies, after a successful cancel
C38_Witness ==
    /\ rules["amen1"][1].max_capacity = 1
    /\ \E b, c \in DOMAIN bookings :
          /\ b < c
          /\ bookings[b].status = CANCELLED /\ bookings[c].status = BOOKED
          /\ bookings[b].amenity_id = bookings[c].amenity_id
          /\ bookings[b].user_id = bookings[c].user_id /\ bookings[b].user_id # None
          /\ bookings[b].start_time = bookings[c].start_time
          /\ bookings[b].end_time = bookings[c].end_time
    /\ \E p \in Procs : Done(p) /\ IsBook(p) /\ proc[p].result.success

InRequest(p) == proc[p].pc \in InCreate \cup InCancel \cup InCheck

\* C39: under fair scheduling and without store failures every create, cancel
\* and availability request that was received eventually returns a result.
C39_EveryRequestReturns ==
    \A p \in Procs : InRequest(p) ~> Done(p)

\* a worker's _resolve_amenity waits for an amenity row that the other worker's
\* transaction holds, while that transaction also holds booking rows
C39_Witness ==
    \E p, q \in Procs :
        /\ p # q
        /\ proc[p].pc \in {"create_resolve", "cancel_resolve", "check_resolve"}
        /\ \E a \in ResolveRows(proc[p].intent.amenity, proc[p].intent.building_id) :
              amLock[a] = q
        /\ \E l \in bkLocks : l[1] = q

\* C40: every slot of the availability listing lies inside the operating
\* window: its slot_end is never later than operating_end_time, so the slot
\* passes the operating-window check of _create_booking.
C40_ListedSlotsInsideWindow ==
    \A p \in Procs : IsListing(p) /\ proc[p].result.status_code = 200 =>
        LET rule == rules[proc[p].intent.amenity_id][1]
            listed == proc[p].result.slots
            midnight == proc[p].intent.day * MinutesPerDay
        IN  \A k \in DOMAIN listed :
                /\ listed[k].slot_end <= rule.operating_end_time
                /\ CheckOperatingWindow(midnight + listed[k].slot_start,
                                        midnight + listed[k].slot_end, rule) = NoReason

====
